---------------------------- MODULE Spec2Model ----------------------------
(***************************************************************************)
(* Model of the indicator cache (taapi_cache.py) and of the indicator      *)
(* client (taapi_client.py).                                               *)
(*                                                                         *)
(* Python values are tagged records (JNull, JNum, JList, JDict); an        *)
(* Optional[...] return value is the sequence <<>> (None) or <<x>>.        *)
(* Time is in whole seconds.  In the client specifications the clock       *)
(* advances by the sleeps of the code and by idle time between calls; an   *)
(* HTTP attempt itself takes no time, the least it can take.               *)
(***************************************************************************)
EXTENDS Integers, Sequences, FiniteSets, TLC

VARIABLES
    now,        \* time.time()
    ttl,        \* TAAPICache.ttl
    cache,      \* TAAPICache._cache: key string -> [timestamp, data]
    lastSet,    \* history: key string -> [timestamp, data] of the latest set()
    obs,        \* the last cache operation: its arguments, the cache before it, its result
    enable_cache,   \* TAAPIClient.enable_cache
    pc,         \* where the running fetch_asset_indicators call stands ("idle": none runs)
    res5m,      \* result["5m"] of the running call
    res4h,      \* result["4h"] of the running call
    rq,         \* the running _get_with_retry / _post_with_retry call
    inflight,   \* the HTTP requests sent and not yet answered
    call,       \* the current or last fetch_asset_indicators call, as its caller sees it
    fn,         \* the last application of a pure helper: its arguments and its result
    okx,        \* OKXAPI: markets_loaded, _position_mode, _ct_val_cache
    op,         \* the running or last OKXAPI operation: where it stands, what it sent, how it ended
    hist,       \* history of the OKXAPI session: the account-config queries issued
    tasks,      \* the placements running concurrently on the session, one per task
    proc,       \* the process: _cache_instance and the TAAPIClient objects constructed
    flows       \* the fetch_asset_indicators calls running concurrently on the shared cache

cacheVars == <<now, ttl, cache, lastSet, obs>>

clientVars == <<enable_cache, pc, res5m, res4h, rq, inflight, call>>

okxVars == <<okx, op, hist>>

vars == <<now, ttl, cache, lastSet, obs, enable_cache, pc, res5m, res4h, rq, inflight, call,
          fn, okx, op, hist, tasks, proc, flows>>

(***************************************************************************)
(* Bounds of the model.                                                    *)
(***************************************************************************)
MaxTime == 5        \* the clock of the cache specification stops here
MaxTtl == 2         \* the ttl given to the constructor is in 1..MaxTtl
MaxClock == 125     \* the clock of the client specification stops here
MaxStart == 5       \* a lone request helper call starts no later than this

(***************************************************************************)
(* Python values.                                                          *)
(***************************************************************************)
None == <<>>
Some(x) == <<x>>

JNull == [t |-> "null"]
JNum(n) == [t |-> "num", v |-> n]
JList(s) == [t |-> "list", v |-> s]
JStr(x) == [t |-> "str", v |-> x]
JDict(d) == [t |-> "dict", v |-> d]

\* Python's truth value of a tagged value: None, 0, "", [] and {} are false.
Truthy(j) ==
    CASE j.t = "null" -> FALSE
      [] j.t = "num"  -> j.v # 0
      [] j.t = "str"  -> j.v # ""
      [] j.t = "list" -> Len(j.v) > 0
      [] j.t = "dict" -> DOMAIN j.v # {}

(***************************************************************************)
(* TAAPICache                                                              *)
(***************************************************************************)
\* key = f"{asset}:{interval}"
Key(asset, interval) == asset \o ":" \o interval

Entry(t, data) == [timestamp |-> t, data |-> data]

MutExpiredAtTtl(age, ttlv) == age >= ttlv

\* get(): age > self.ttl
GetExpired(age, ttlv) == age > ttlv

\* get(): the value returned
CacheGetResult(c, k, t, ttlv) ==
    IF k \notin DOMAIN c THEN None
    ELSE IF GetExpired(t - c[k].timestamp, ttlv) THEN None
    ELSE Some(c[k].data)

MutGetPops(c, k, t, ttlv) == [x \in DOMAIN c \ {k} |-> c[x]]

\* get(): the cache it leaves (del self._cache[key] on an expired entry)
CacheAfterGet(c, k, t, ttlv) ==
    IF k \in DOMAIN c /\ GetExpired(t - c[k].timestamp, ttlv)
    THEN [x \in DOMAIN c \ {k} |-> c[x]]
    ELSE c

\* set(): self._cache[key] = {'timestamp': time.time(), 'data': data}
CacheAfterSet(c, k, t, data) ==
    [x \in DOMAIN c \cup {k} |-> IF x = k THEN Entry(t, data) ELSE c[x]]

EmptyCache == [x \in {} |-> Entry(0, JNull)]

MutStatsBothAtBoundary(c, t, ttlv) ==
    [total_entries   |-> Cardinality(DOMAIN c),
     active_entries  |-> Cardinality({k \in DOMAIN c : t - c[k].timestamp <= ttlv}),
     expired_entries |-> Cardinality({k \in DOMAIN c : t - c[k].timestamp >= ttlv}),
     ttl_seconds     |-> ttlv]

\* stats(): the dict returned
CacheStats(c, t, ttlv) ==
    [total_entries   |-> Cardinality(DOMAIN c),
     active_entries  |-> Cardinality({k \in DOMAIN c : t - c[k].timestamp <= ttlv}),
     expired_entries |-> Cardinality({k \in DOMAIN c : ~(t - c[k].timestamp <= ttlv)}),
     ttl_seconds     |-> ttlv]

MutStatsSweeps(c, t, ttlv) ==
    [x \in {k \in DOMAIN c : t - c[k].timestamp <= ttlv} |-> c[x]]

\* stats(): the cache it leaves (it only reads self._cache)
CacheAfterStats(c, t, ttlv) == c

(***************************************************************************)
(* TAAPIClient: the shared request layer                                   *)
(***************************************************************************)
Retries == 10           \* retries=10
Backoff == 5            \* backoff=5.0
MutDelay15 == 15

InterRequestDelay == 30 \* time.sleep(30)

\* What one HTTP attempt can end in: a 2xx response with a JSON body, a
\* response raise_for_status() turns into HTTPError, requests.Timeout, or
\* any other exception (a connection error, a body that is not JSON).
ErrorCodes == {400, 404, 429, 500, 503}

OkOutcome(body) == [kind |-> "ok", code |-> 200, body |-> body]
HttpError(code) == [kind |-> "http", code |-> code, body |-> JNull]
TimeoutOutcome == [kind |-> "timeout", code |-> 0, body |-> JNull]
OtherError == [kind |-> "error", code |-> 0, body |-> JNull]
MaxRetriesExceeded == [kind |-> "max_retries", code |-> 0, body |-> JNull]

FailureOutcomes == {HttpError(c) : c \in ErrorCodes} \cup {TimeoutOutcome, OtherError}

MutGetSleepsAfterLast(o, attempt) ==
    CASE o.kind = "ok" -> "return"
      [] o.kind = "http" ->
            IF (o.code = 429 \/ o.code >= 500) /\ attempt < Retries THEN "sleep" ELSE "raise"
      [] o.kind = "timeout" -> IF attempt < Retries THEN "sleep" ELSE "raise"
      [] OTHER -> "raise"

\* _get_with_retry: what the loop body does with the outcome of attempt
\* number `attempt` (0-based): return resp.json(), sleep and go on, or raise.
GetDecision(o, attempt) ==
    CASE o.kind = "ok" -> "return"
      [] o.kind = "http" ->
            IF (o.code = 429 \/ o.code >= 500) /\ attempt < Retries - 1 THEN "sleep" ELSE "raise"
      [] o.kind = "timeout" -> IF attempt < Retries - 1 THEN "sleep" ELSE "raise"
      [] OTHER -> "raise"

MutPostRetriesAll4xx(o, attempt) ==
    CASE o.kind = "ok" -> "return"
      [] o.kind = "http" ->
            IF o.code >= 400 /\ attempt < Retries - 1 THEN "sleep" ELSE "raise"
      [] o.kind = "timeout" -> IF attempt < Retries - 1 THEN "sleep" ELSE "raise"
      [] OTHER -> "raise"

\* _post_with_retry: the same loop body
PostDecision(o, attempt) ==
    CASE o.kind = "ok" -> "return"
      [] o.kind = "http" ->
            IF (o.code = 429 \/ o.code >= 500) /\ attempt < Retries - 1 THEN "sleep" ELSE "raise"
      [] o.kind = "timeout" -> IF attempt < Retries - 1 THEN "sleep" ELSE "raise"
      [] OTHER -> "raise"

Decision(helper, o, attempt) ==
    IF helper = "get" THEN GetDecision(o, attempt) ELSE PostDecision(o, attempt)

\* No request helper runs.
IdleRq == [phase |-> "idle", helper |-> "", attempt |-> 0, made |-> 0, sleeps |-> 0,
           last |-> OkOutcome(JNull), resp |-> JNull, err |-> OkOutcome(JNull)]

\* The helper is entered: for attempt in range(retries), attempt = 0.
StartRq(helper) == [IdleRq EXCEPT !.phase = "try", !.helper = helper]

(***************************************************************************)
(* TAAPIClient: bulk fetch and normalization                               *)
(***************************************************************************)
\* Numbers are fixed-point, in units of 0.00001: round(v, 4) is the nearest
\* multiple of 10, a tie going to the even fourth decimal.
Round4(n) ==
    LET r == n % 10
        lo == n - r
    IN IF r < 5 THEN lo
       ELSE IF r > 5 THEN lo + 10
       ELSE IF (lo \div 10) % 2 = 0 THEN lo ELSE lo + 10

\* round(v, 4) if isinstance(v, (int, float)) else v
RoundIfNumber(j) == IF j.t = "num" THEN JNum(Round4(j.v)) ELSE j

\* An exception leaving a helper instead of a return value.
Raised == [t |-> "raise"]

MutSeriesUnguarded(data, value_key) ==
    IF ~Truthy(data) THEN JList(<<>>)
    ELSE IF data.t = "num" THEN Raised
    ELSE IF data.t = "dict" /\ value_key \in DOMAIN data.v
         THEN IF data.v[value_key].t = "list"
              THEN JList([i \in 1..Len(data.v[value_key].v) |->
                            RoundIfNumber(data.v[value_key].v[i])])
              ELSE JList(<<>>)
         ELSE JList(<<>>)

\* _extract_series(data, value_key)
ExtractSeries(data, value_key) ==
    IF ~Truthy(data) THEN JList(<<>>)
    ELSE IF data.t = "dict" /\ value_key \in DOMAIN data.v
         THEN IF data.v[value_key].t = "list"
              THEN JList([i \in 1..Len(data.v[value_key].v) |->
                            RoundIfNumber(data.v[value_key].v[i])])
              ELSE JList(<<>>)
         ELSE JList(<<>>)

\* _extract_value(data, value_key)
ExtractValue(data, value_key) ==
    IF ~Truthy(data) THEN JNull
    ELSE IF data.t = "dict" /\ value_key \in DOMAIN data.v
         THEN RoundIfNumber(data.v[value_key])
         ELSE JNull

\* results = {}: the dict fetch_bulk_indicators returns on any exception
NoResults == [x \in {} |-> JNull]

\* fetch_bulk_indicators: "Parse results by ID". A "data" that is not a list
\* of dicts raises inside the try block, which returns {}.
ParseBulk(response) ==
    IF response.t = "dict" /\ "data" \in DOMAIN response.v
    THEN LET items == response.v["data"]
         IN IF items.t # "list" \/ \E i \in 1..Len(items.v) : items.v[i].t # "dict"
            THEN NoResults
            ELSE LET named == {i \in 1..Len(items.v) :
                                  /\ "id" \in DOMAIN items.v[i].v
                                  /\ Truthy(items.v[i].v["id"])}
                     last(id) == CHOOSE i \in named :
                                    /\ items.v[i].v["id"].v = id
                                    /\ \A j \in named : items.v[j].v["id"].v = id => j <= i
                 IN [id \in {items.v[i].v["id"].v : i \in named} |->
                        IF "result" \in DOMAIN items.v[last(id)].v
                        THEN items.v[last(id)].v["result"]
                        ELSE JNull]
    ELSE NoResults

\* fetch_bulk_indicators: what it returns once _post_with_retry has ended
FetchBulkResult(r) ==
    IF r.phase = "returned" THEN ParseBulk(r.resp) ELSE NoResults

\* bulk.get(id)
BulkGet(bulk, id) == IF id \in DOMAIN bulk THEN bulk[id] ELSE JNull

\* result["5m"] after the four _extract_series calls
Extract5m(bulk) ==
    [ema20 |-> ExtractSeries(BulkGet(bulk, "ema20"), "value"),
     macd  |-> ExtractSeries(BulkGet(bulk, "macd"), "valueMACD"),
     rsi7  |-> ExtractSeries(BulkGet(bulk, "rsi7"), "value"),
     rsi14 |-> ExtractSeries(BulkGet(bulk, "rsi14"), "value")]

\* result["4h"] after the four _extract_value and two _extract_series calls
Extract4h(bulk) ==
    [ema20 |-> ExtractValue(BulkGet(bulk, "ema20"), "value"),
     ema50 |-> ExtractValue(BulkGet(bulk, "ema50"), "value"),
     atr3  |-> ExtractValue(BulkGet(bulk, "atr3"), "value"),
     atr14 |-> ExtractValue(BulkGet(bulk, "atr14"), "value"),
     macd  |-> ExtractSeries(BulkGet(bulk, "macd"), "valueMACD"),
     rsi14 |-> ExtractSeries(BulkGet(bulk, "rsi14"), "value")]

\* all_5m_empty / all_lt_empty: not any([...]) over the bundle's values
AllEmpty(bundle) == \A f \in DOMAIN bundle : ~Truthy(bundle[f])

\* the raise RuntimeError("TAAPI returned no usable indicators ...") statement
\* is reached
NoUsableRaised(b5m, b4h) ==
    (AllEmpty(b5m) \/ AllEmpty(b4h)) /\ (AllEmpty(b5m) /\ AllEmpty(b4h))

\* The raise sits inside try: ... except Exception: pass, so an exception
\* raised in the block never leaves fetch_asset_indicators.
EscapesTry(raised) == FALSE

MutFailsOnEitherEmpty(b5m, b4h) == AllEmpty(b5m) \/ AllEmpty(b4h)

\* Whether the emptiness check makes fetch_asset_indicators raise.
HardFailure(b5m, b4h) == EscapesTry(NoUsableRaised(b5m, b4h))

\* result = {"5m": {}, long_term_interval: {}}
EmptyBundle == [x \in {} |-> JNull]

\* `if cached_5m and cached_long_term`: an Optional[dict] counts as true when
\* it is not None and the dict is not empty.
CachedTruthy(opt) == opt # None /\ DOMAIN opt[1] # {}

\* The cache probe's verdict on the two values cache.get returned.
ProbeHit(r5, r4) == CachedTruthy(r5) /\ CachedTruthy(r4)

\* No call of fetch_asset_indicators has been made.
NoCall == [asset |-> "", outcome |-> "none", startedAt |-> 0, startCache |-> EmptyCache,
           netUsed |-> FALSE, delayed |-> FALSE, wrote |-> FALSE,
           shortDoneAt |-> -1, longSentAt |-> -1, endedAt |-> -1,
           lastSentAt |-> -1, gap |-> -1, abortedIn |-> "",
           shortEnd |-> "", longEnd |-> "", ret |-> None]

(***************************************************************************)
(* OKXAPI: session state                                                   *)
(***************************************************************************)
\* __init__: markets_loaded = False, _ct_val_cache = {}, _position_mode = None.
\* `markets` is what exchange.markets holds of the asset's contractSize once
\* load_markets has succeeded.
NewSession == [markets_loaded |-> FALSE, position_mode |-> "None",
               ct_val_cache |-> [x \in {} |-> 0], markets |-> "unloaded"]

\* No operation has been called.
NoOp == [name |-> "none", pc |-> "done", outcome |-> "none", asset |-> <<>>, side |-> "",
         is_buy |-> FALSE, amount |-> 0, oid |-> "", ct_val |-> 0, sz |-> 0,
         net |-> <<>>, failed |-> {}, rejected |-> {},
         exch |-> [regular |-> <<>>, algo |-> <<>>, positions |-> <<>>, balance |-> <<>>],
         orders |-> <<>>, balance |-> 0, total_equity |-> 0, ret |-> [code |-> "none"]]

\* No account-config query has been issued, no mode detected.
NoHist == [configQueries |-> 0, detected |-> "None", reply |-> "none"]

\* No pure helper has been applied.
\* Module load: _cache_instance = None, no client constructed.  `made`
\* counts the TAAPICache objects constructed, `arg` is the ttl given to the
\* last get_cache call and `got` what that call returned.
NewProcess == [instance |-> None, made |-> 0, clients |-> <<>>, arg |-> 0, got |-> None]

\* The threads that may run fetch_asset_indicators concurrently.
MaxFlows == 2

Flows == 1..MaxFlows

\* A thread that runs no call.  In NoFlows `calls` counts the calls
\* started, and `by` names for each cache key the call whose cache.set
\* wrote the entry it holds.
IdleFlow == [pc |-> "idle", id |-> 0, asset |-> "", res5m |-> <<>>, res4h |-> <<>>]

NoFlows == [run |-> [f \in Flows |-> IdleFlow], calls |-> 0, by |-> [k \in {} |-> 0],
            overlap |-> FALSE]

\* The tasks that may run a placement concurrently on one session.
MaxTasks == 2

Tasks == 1..MaxTasks

\* A task that has not called a placement: queried says whether it issued
\* the account-config query, wrote holds the mode it assigned to
\* _position_mode, used the mode its order was built with.
IdleTask == [pc |-> "idle", name |-> "none", queried |-> FALSE, wrote |-> None, used |-> None]

NoTasks == [t \in Tasks |-> IdleTask]

NoFn == [name |-> "none", data |-> JNull, key |-> "", out |-> JNull]

(***************************************************************************)
(* The cache on its own: any sequence of set, get, clear, stats and clock   *)
(* advances, on a few (asset, interval) pairs.                              *)
(***************************************************************************)
\* ("A","B:C") and ("a","B:C") differ in letter case only; ("A","B:C") and
\* ("A:B","C") hold a ':' in the interval or in the asset.
Pairs == { <<"A", "B:C">>, <<"a", "B:C">>, <<"A:B", "C">> }

SampleBundles ==
    { [ema20 |-> JList(<<10>>), macd |-> JList(<<>>), rsi7 |-> JList(<<>>), rsi14 |-> JList(<<>>)],
      [ema20 |-> JList(<<20>>), macd |-> JList(<<>>), rsi7 |-> JList(<<>>), rsi14 |-> JList(<<>>)] }

NoObs == [op |-> "none", asset |-> "", interval |-> "", pre |-> EmptyCache,
          at |-> 0, ret |-> None]

InitCache ==
    /\ now = 0
    /\ ttl \in 1..MaxTtl
    /\ cache = EmptyCache
    /\ lastSet = EmptyCache
    /\ obs = NoObs
    /\ enable_cache = TRUE
    /\ pc = "idle"
    /\ res5m = EmptyBundle
    /\ res4h = EmptyBundle
    /\ rq = IdleRq
    /\ inflight = {}
    /\ call = NoCall
    /\ fn = NoFn
    /\ okx = NewSession
    /\ op = NoOp
    /\ hist = NoHist
    /\ tasks = NoTasks
    /\ proc = NewProcess
    /\ flows = NoFlows

Get(asset, interval) ==
    /\ cache' = CacheAfterGet(cache, Key(asset, interval), now, ttl)
    /\ obs' = [op |-> "get", asset |-> asset, interval |-> interval, pre |-> cache,
               at |-> now, ret |-> CacheGetResult(cache, Key(asset, interval), now, ttl)]
    /\ UNCHANGED <<now, ttl, lastSet>>
    /\ UNCHANGED clientVars
    /\ UNCHANGED <<fn, okx, op, hist, tasks, proc, flows>>

Set(asset, interval, data) ==
    /\ cache' = CacheAfterSet(cache, Key(asset, interval), now, data)
    /\ lastSet' = [x \in DOMAIN lastSet \cup {Key(asset, interval)} |->
                     IF x = Key(asset, interval) THEN Entry(now, data) ELSE lastSet[x]]
    /\ obs' = [op |-> "set", asset |-> asset, interval |-> interval, pre |-> cache,
               at |-> now, ret |-> None]
    /\ UNCHANGED <<now, ttl>>
    /\ UNCHANGED clientVars
    /\ UNCHANGED <<fn, okx, op, hist, tasks, proc, flows>>

Clear ==
    /\ cache' = EmptyCache
    /\ obs' = [op |-> "clear", asset |-> "", interval |-> "", pre |-> cache,
               at |-> now, ret |-> None]
    /\ UNCHANGED <<now, ttl, lastSet>>
    /\ UNCHANGED clientVars
    /\ UNCHANGED <<fn, okx, op, hist, tasks, proc, flows>>

Stats ==
    /\ cache' = CacheAfterStats(cache, now, ttl)
    /\ obs' = [op |-> "stats", asset |-> "", interval |-> "", pre |-> cache,
               at |-> now, ret |-> Some(CacheStats(cache, now, ttl))]
    /\ UNCHANGED <<now, ttl, lastSet>>
    /\ UNCHANGED clientVars
    /\ UNCHANGED <<fn, okx, op, hist, tasks, proc, flows>>

Tick ==
    /\ now < MaxTime
    /\ now' = now + 1
    /\ UNCHANGED <<ttl, cache, lastSet, obs>>
    /\ UNCHANGED clientVars
    /\ UNCHANGED <<fn, okx, op, hist, tasks, proc, flows>>

NextCache ==
    \/ \E p \in Pairs : Get(p[1], p[2])
    \/ \E p \in Pairs, d \in SampleBundles : Set(p[1], p[2], d)
    \/ Clear
    \/ Stats
    \/ Tick

SpecCache == InitCache /\ [][NextCache]_vars

(***************************************************************************)
(* Claims about the cache, checked under SpecCache.                        *)
(***************************************************************************)
ObsKey == Key(obs.asset, obs.interval)

\* The entry get() looked at was stored by the latest set() of its key and
\* is not older than ttl.
ObsFresh ==
    /\ ObsKey \in DOMAIN obs.pre
    /\ ObsKey \in DOMAIN lastSet
    /\ obs.at - lastSet[ObsKey].timestamp <= ttl

\* C1: get(asset, interval) returns the bundle of the most recent set of
\* that key if and only if an entry exists and now - storedAt <= ttl (an
\* age equal to ttl still hits); otherwise it returns None, and an expired
\* entry is removed: total_entries decreases by exactly one and no other
\* entry changes.
C1_GetHitsIffFresh ==
    obs.op = "get" =>
        /\ (obs.ret # None) <=> ObsFresh
        /\ ObsFresh => /\ obs.ret = Some(lastSet[ObsKey].data)
                       /\ cache = obs.pre
        /\ ObsKey \notin DOMAIN obs.pre => cache = obs.pre
        /\ (ObsKey \in DOMAIN obs.pre /\ ~ObsFresh) =>
              /\ DOMAIN cache = DOMAIN obs.pre \ {ObsKey}
              /\ \A x \in DOMAIN cache : cache[x] = obs.pre[x]
              /\ CacheStats(cache, obs.at, ttl).total_entries
                   = CacheStats(obs.pre, obs.at, ttl).total_entries - 1

\* C1 witness: a get one second past ttl evicted its entry and left another
\* entry in place.
C1_Witness ==
    /\ obs.op = "get"
    /\ ObsKey \in DOMAIN obs.pre
    /\ obs.at - obs.pre[ObsKey].timestamp = ttl + 1
    /\ obs.ret = None
    /\ ObsKey \notin DOMAIN cache
    /\ DOMAIN cache # {}

\* C2: in every cache state and at every clock value stats() reports
\* total_entries = active_entries + expired_entries, and the entries it
\* counts as active are exactly those get would return at that instant.
C2_StatsTotalIsActivePlusExpired ==
    LET s == CacheStats(cache, now, ttl)
    IN /\ s.total_entries = s.active_entries + s.expired_entries
       /\ s.active_entries =
            Cardinality({k \in DOMAIN cache : CacheGetResult(cache, k, now, ttl) # None})

\* C2 witness: stats() was called on a cache holding an entry whose age is
\* exactly ttl (counted active) and an entry older than ttl (counted expired).
C2_Witness ==
    /\ obs.op = "stats"
    /\ obs.at = now
    /\ cache = obs.pre
    /\ \E k \in DOMAIN cache : now - cache[k].timestamp = ttl
    /\ \E k \in DOMAIN cache : now - cache[k].timestamp > ttl
    /\ obs.ret[1].active_entries >= 1
    /\ obs.ret[1].expired_entries >= 1

\* C3: stats() leaves the cache unchanged, expired entries included; an
\* expired entry is removed or replaced only by a get of its own key, a set
\* of its own key, or clear().
C3_StatsLeavesCacheUnchanged ==
    [][ /\ (obs'.op = "stats" => cache' = cache)
        /\ \A k \in DOMAIN cache :
              ( /\ now - cache[k].timestamp > ttl
                /\ (k \notin DOMAIN cache' \/ cache'[k] # cache[k]) )
              => \/ obs'.op = "clear"
                 \/ /\ obs'.op \in {"get", "set"}
                    /\ Key(obs'.asset, obs'.interval) = k ]_vars

\* C3 witness: stats() ran with an expired entry stored, and the entry is
\* still there.
C3_Witness ==
    /\ obs.op = "stats"
    /\ obs.ret[1].expired_entries >= 1
    /\ \E k \in DOMAIN cache : obs.at - cache[k].timestamp > ttl
    /\ cache = obs.pre

\* C4: the cache key is the exact pair (asset, interval): for two distinct
\* pairs p # q, a set(p, b) never changes what get(q) returns and a get(p)
\* never evicts q's entry.
C4_DistinctPairsIndependent ==
    \A q \in Pairs :
        q # <<obs.asset, obs.interval>> =>
            /\ obs.op = "set" =>
                 CacheGetResult(cache, Key(q[1], q[2]), obs.at, ttl)
                   = CacheGetResult(obs.pre, Key(q[1], q[2]), obs.at, ttl)
            /\ obs.op = "get" =>
                 (Key(q[1], q[2]) \in DOMAIN obs.pre => Key(q[1], q[2]) \in DOMAIN cache)

(***************************************************************************)
(* The request helpers, one step per blocking point: the request is sent,  *)
(* its outcome arrives, the backoff sleep ends.                            *)
(***************************************************************************)
\* What the request in hand is for.
RequestLabel == IF pc = "short" THEN "5m" ELSE IF pc = "long" THEN "4h" ELSE rq.helper

Item(id, result) == JDict([id |-> JStr(id), result |-> result])

SeriesA == JDict([value |-> JList(<<JNum(123456), JNum(200000)>>)])
MacdA == JDict([valueMACD |-> JList(<<JNum(-5004), JNull>>),
                valueMACDSignal |-> JList(<<JNum(1), JNum(2)>>)])
ScalarA == JDict([value |-> JNum(6543215)])
ScalarZero == JDict([value |-> JNum(0)])

\* {"data": [...]} with every requested 5m indicator
Body5mFull ==
    JDict([data |-> JList(<<Item("ema20", SeriesA), Item("macd", MacdA),
                            Item("rsi7", SeriesA), Item("rsi14", SeriesA)>>)])

\* {"data": [...]} with every requested 4h indicator
Body4hFull ==
    JDict([data |-> JList(<<Item("ema20", ScalarA), Item("ema50", ScalarA),
                            Item("atr3", ScalarA), Item("atr14", ScalarA),
                            Item("macd", MacdA), Item("rsi14", SeriesA)>>)])

\* {"data": [...]} whose only usable 4h result is an ema20 of 0
Body4hZero ==
    JDict([data |-> JList(<<Item("ema20", ScalarZero), Item("macd", JDict([value |-> JNull]))>>)])

\* {"data": []}
BodyNoItems == JDict([data |-> JList(<<>>)])

\* a JSON body without "data"
BodyNoData == JDict([error |-> JStr("x")])

\* The JSON bodies a 2xx response may carry.
Bodies(label) ==
    CASE label = "5m" -> {Body5mFull, BodyNoItems}
      [] label = "4h" -> {Body4hFull, Body4hZero, BodyNoData}
      [] OTHER -> {ScalarA}

\* Every outcome the attempt in hand can have.
Outcomes == FailureOutcomes \cup {OkOutcome(b) : b \in Bodies(RequestLabel)}

\* requests.get / requests.post is called.
SendRequest ==
    /\ rq.phase = "try"
    /\ rq' = [rq EXCEPT !.phase = "wait", !.made = @ + 1]
    /\ inflight' = inflight \cup {RequestLabel}
    /\ call' = IF pc = "idle" THEN call
               ELSE [call EXCEPT !.netUsed = TRUE,
                                 !.longSentAt = IF pc = "long" /\ @ = -1 THEN now ELSE @,
                                 !.gap = IF call.lastSentAt = -1 THEN -1
                                         ELSE now - call.lastSentAt,
                                 !.lastSentAt = now]
    /\ UNCHANGED <<now, ttl, cache, lastSet, obs, enable_cache, pc, res5m, res4h>>
    /\ UNCHANGED <<fn, okx, op, hist, tasks, proc, flows>>

\* The attempt ends with outcome o; the loop body returns, sleeps or raises.
Receive(o) ==
    /\ rq.phase = "wait"
    /\ inflight' = inflight \ {RequestLabel}
    /\ rq' = CASE Decision(rq.helper, o, rq.attempt) = "return" ->
                    [rq EXCEPT !.phase = "returned", !.last = o, !.resp = o.body]
               [] Decision(rq.helper, o, rq.attempt) = "sleep" ->
                    [rq EXCEPT !.phase = "sleep", !.last = o]
               [] OTHER ->
                    [rq EXCEPT !.phase = "raised", !.last = o, !.err = o]
    /\ UNCHANGED <<now, ttl, cache, lastSet, obs, enable_cache, pc, res5m, res4h, call>>
    /\ UNCHANGED <<fn, okx, op, hist, tasks, proc, flows>>

ReceiveAny == \E o \in Outcomes : Receive(o)

\* time.sleep(backoff) ends and the for loop goes on; a loop that runs out
\* reaches raise RuntimeError("Max retries exceeded").
BackoffSleep ==
    /\ rq.phase = "sleep"
    /\ now + Backoff <= MaxClock
    /\ now' = now + Backoff
    /\ rq' = IF rq.attempt + 1 < Retries
             THEN [rq EXCEPT !.phase = "try", !.attempt = @ + 1, !.sleeps = @ + 1]
             ELSE [rq EXCEPT !.phase = "raised", !.attempt = @ + 1, !.sleeps = @ + 1,
                             !.err = MaxRetriesExceeded]
    /\ UNCHANGED <<ttl, cache, lastSet, obs, enable_cache, pc, res5m, res4h, inflight, call>>
    /\ UNCHANGED <<fn, okx, op, hist, tasks, proc, flows>>

\* A caller other than fetch_bulk_indicators (get_indicators, fetch_value, ...)
\* enters a helper.
StartRequest(helper) ==
    /\ pc = "idle"
    /\ rq.phase \in {"idle", "returned", "raised"}
    /\ now <= MaxStart
    /\ rq' = StartRq(helper)
    /\ UNCHANGED <<now, ttl, cache, lastSet, obs, enable_cache, pc, res5m, res4h, inflight, call>>
    /\ UNCHANGED <<fn, okx, op, hist, tasks, proc, flows>>

(***************************************************************************)
(* fetch_asset_indicators, one step per blocking point and per cache write *)
(***************************************************************************)
Assets == {"BTC"}

\* The call starts: the cache probe, then either the cached result is
\* returned or the 5m bulk request is entered.
CallFetch(asset) ==
    /\ pc = "idle"
    /\ rq.phase = "idle"
    /\ LET r5 == IF enable_cache THEN CacheGetResult(cache, Key(asset, "5m"), now, ttl) ELSE None
           c1 == IF enable_cache THEN CacheAfterGet(cache, Key(asset, "5m"), now, ttl) ELSE cache
           r4 == IF enable_cache THEN CacheGetResult(c1, Key(asset, "4h"), now, ttl) ELSE None
           c2 == IF enable_cache THEN CacheAfterGet(c1, Key(asset, "4h"), now, ttl) ELSE cache
           started == [NoCall EXCEPT !.asset = asset, !.outcome = "running",
                                     !.startedAt = now, !.startCache = cache]
       IN /\ cache' = c2
          /\ IF enable_cache /\ ProbeHit(r5, r4)
             THEN /\ call' = [started EXCEPT !.outcome = "returned", !.endedAt = now,
                                             !.ret = Some([short |-> r5[1], long |-> r4[1]])]
                  /\ UNCHANGED <<pc, rq>>
             ELSE /\ call' = started
                  /\ pc' = "short"
                  /\ rq' = StartRq("post")
    /\ res5m' = EmptyBundle
    /\ res4h' = EmptyBundle
    /\ UNCHANGED <<now, ttl, lastSet, obs, enable_cache, inflight>>
    /\ UNCHANGED <<fn, okx, op, hist, tasks, proc, flows>>

\* How a finished helper call ended.
RequestEnd(r) ==
    IF r.phase = "returned" THEN "returned"
    ELSE IF r.made = Retries THEN "exhausted" ELSE "raised"

MutShortDoneWritesEarly ==
    /\ pc = "short"
    /\ rq.phase \in {"returned", "raised"}
    /\ res5m' = Extract5m(FetchBulkResult(rq))
    /\ call' = [call EXCEPT !.shortDoneAt = now, !.shortEnd = RequestEnd(rq)]
    /\ pc' = "delay"
    /\ rq' = IdleRq
    /\ cache' = CacheAfterSet(cache, Key(call.asset, "5m"), now, Extract5m(FetchBulkResult(rq)))
    /\ UNCHANGED <<now, ttl, lastSet, obs, enable_cache, res4h, inflight>>
    /\ UNCHANGED <<fn, okx, op, hist, tasks, proc, flows>>

\* fetch_bulk_indicators(symbol, "5m", ...) returns; the 5m series are extracted.
ShortDone ==
    /\ pc = "short"
    /\ rq.phase \in {"returned", "raised"}
    /\ res5m' = Extract5m(FetchBulkResult(rq))
    /\ call' = [call EXCEPT !.shortDoneAt = now, !.shortEnd = RequestEnd(rq)]
    /\ pc' = "delay"
    /\ rq' = IdleRq
    /\ UNCHANGED <<now, ttl, cache, lastSet, obs, enable_cache, res4h, inflight>>
    /\ UNCHANGED <<fn, okx, op, hist, tasks, proc, flows>>

\* time.sleep(30) ends and the 4h bulk request is entered.
DelaySleep ==
    /\ pc = "delay"
    /\ now + InterRequestDelay <= MaxClock
    /\ now' = now + InterRequestDelay
    /\ call' = [call EXCEPT !.delayed = TRUE]
    /\ pc' = "long"
    /\ rq' = StartRq("post")
    /\ UNCHANGED <<ttl, cache, lastSet, obs, enable_cache, res5m, res4h, inflight>>
    /\ UNCHANGED <<fn, okx, op, hist, tasks, proc, flows>>

\* fetch_bulk_indicators(symbol, "4h", ...) returns; the 4h values are
\* extracted and the emptiness check runs.  Without a cache the result is
\* returned at once.
LongDone ==
    /\ pc = "long"
    /\ rq.phase \in {"returned", "raised"}
    /\ LET b4 == Extract4h(FetchBulkResult(rq))
           ended == [call EXCEPT !.longEnd = RequestEnd(rq)]
       IN /\ res4h' = b4
          /\ IF HardFailure(res5m, b4)
             THEN /\ call' = [ended EXCEPT !.outcome = "raised", !.endedAt = now]
                  /\ pc' = "idle"
             ELSE IF enable_cache
             THEN /\ call' = ended
                  /\ pc' = "write5m"
             ELSE /\ call' = [ended EXCEPT !.outcome = "returned", !.endedAt = now,
                                           !.ret = Some([short |-> res5m, long |-> b4])]
                  /\ pc' = "idle"
    /\ rq' = IdleRq
    /\ UNCHANGED <<now, ttl, cache, lastSet, obs, enable_cache, res5m, inflight>>
    /\ UNCHANGED <<fn, okx, op, hist, tasks, proc, flows>>

\* self.cache.set(asset, "5m", result["5m"])
Write5m ==
    /\ pc = "write5m"
    /\ cache' = CacheAfterSet(cache, Key(call.asset, "5m"), now, res5m)
    /\ call' = [call EXCEPT !.wrote = TRUE]
    /\ pc' = "write4h"
    /\ UNCHANGED <<now, ttl, lastSet, obs, enable_cache, res5m, res4h, rq, inflight>>
    /\ UNCHANGED <<fn, okx, op, hist, tasks, proc, flows>>

MutWrite4hUnder5m ==
    /\ pc = "write4h"
    /\ cache' = CacheAfterSet(cache, Key(call.asset, "5m"), now, res4h)
    /\ call' = [call EXCEPT !.outcome = "returned", !.endedAt = now,
                            !.ret = Some([short |-> res5m, long |-> res4h])]
    /\ pc' = "idle"
    /\ UNCHANGED <<now, ttl, lastSet, obs, enable_cache, res5m, res4h, rq, inflight>>
    /\ UNCHANGED <<fn, okx, op, hist, tasks, proc, flows>>

\* self.cache.set(asset, long_term_interval, result[long_term_interval]); return result
Write4h ==
    /\ pc = "write4h"
    /\ cache' = CacheAfterSet(cache, Key(call.asset, "4h"), now, res4h)
    /\ call' = [call EXCEPT !.outcome = "returned", !.endedAt = now,
                            !.ret = Some([short |-> res5m, long |-> res4h])]
    /\ pc' = "idle"
    /\ UNCHANGED <<now, ttl, lastSet, obs, enable_cache, res5m, res4h, rq, inflight>>
    /\ UNCHANGED <<fn, okx, op, hist, tasks, proc, flows>>

\* Between two calls the clock is read in steps of the backoff.
TickStep == Backoff

\* Time passes between two calls.
IdleTick ==
    /\ pc = "idle"
    /\ rq.phase = "idle"
    /\ now + TickStep <= MaxClock
    /\ now' = now + TickStep
    /\ UNCHANGED <<ttl, cache, lastSet, obs, enable_cache, pc, res5m, res4h, rq, inflight, call>>
    /\ UNCHANGED <<fn, okx, op, hist, tasks, proc, flows>>

DefaultTtl == 60        \* cache_ttl: int = 60

InitFetch ==
    /\ now = 0
    /\ ttl = DefaultTtl
    /\ cache = EmptyCache
    /\ lastSet = EmptyCache
    /\ obs = NoObs
    /\ enable_cache \in BOOLEAN
    /\ pc = "idle"
    /\ res5m = EmptyBundle
    /\ res4h = EmptyBundle
    /\ rq = IdleRq
    /\ inflight = {}
    /\ call = NoCall
    /\ fn = NoFn
    /\ okx = NewSession
    /\ op = NoOp
    /\ hist = NoHist
    /\ tasks = NoTasks
    /\ proc = NewProcess
    /\ flows = NoFlows

NextFetch ==
    \/ \E a \in Assets : CallFetch(a)
    \/ SendRequest
    \/ ReceiveAny
    \/ BackoffSleep
    \/ ShortDone
    \/ DelaySleep
    \/ LongDone
    \/ Write5m
    \/ Write4h
    \/ IdleTick

SpecFetch == InitFetch /\ [][NextFetch]_vars

(***************************************************************************)
(* The process-wide cache: get_cache and the clients constructed on it.    *)
(***************************************************************************)
\* The clients constructed in the process.
MaxClients == 3

\* The ttl values given to get_cache and to TAAPIClient.
TtlArgs == 1..MaxTtl \cup {DefaultTtl}

MutGetCacheFollowsTtl(p, t) ==
    IF p.instance = None \/ p.instance[1].ttl # t
    THEN [p EXCEPT !.instance = Some([id |-> p.made + 1, ttl |-> t]), !.made = @ + 1,
                   !.arg = t, !.got = Some([id |-> p.made + 1, ttl |-> t])]
    ELSE [p EXCEPT !.arg = t, !.got = p.instance]

\* get_cache(ttl): TAAPICache(ttl=ttl) is constructed when _cache_instance
\* is None; _cache_instance is returned.
GetCacheResult(p, t) ==
    IF p.instance = None
    THEN [p EXCEPT !.instance = Some([id |-> p.made + 1, ttl |-> t]), !.made = @ + 1,
                   !.arg = t, !.got = Some([id |-> p.made + 1, ttl |-> t])]
    ELSE [p EXCEPT !.arg = t, !.got = p.instance]

\* get_cache(ttl) is called.
GetCache ==
    /\ \E t \in TtlArgs : proc' = GetCacheResult(proc, t)
    /\ UNCHANGED <<cacheVars, clientVars, fn, okx, op, hist, tasks, flows>>

\* TAAPIClient(enable_cache, cache_ttl) is constructed:
\* self.cache = get_cache(ttl=cache_ttl) if enable_cache else None.
NewClient ==
    /\ Len(proc.clients) < MaxClients
    /\ \E enabled \in BOOLEAN, t \in TtlArgs :
          proc' = IF enabled
                  THEN [GetCacheResult(proc, t) EXCEPT
                           !.clients = Append(@, [enable_cache |-> TRUE, cache_ttl |-> t,
                                                  cache |-> GetCacheResult(proc, t).got])]
                  ELSE [proc EXCEPT
                           !.clients = Append(@, [enable_cache |-> FALSE, cache_ttl |-> t,
                                                  cache |-> None])]
    /\ UNCHANGED <<cacheVars, clientVars, fn, okx, op, hist, tasks, flows>>

InitProcess == InitFetch /\ enable_cache

NextProcess ==
    \/ GetCache
    \/ NewClient

SpecProcess == InitProcess /\ [][NextProcess]_vars

(***************************************************************************)
(* fetch_asset_indicators with a caller that may abort it: an exception    *)
(* that no `except Exception` catches (KeyboardInterrupt) is raised in the *)
(* running call and unwinds it.                                            *)
(***************************************************************************)
\* The running call is aborted where it stands: its request, sleep or
\* write is abandoned, its locals are gone and nothing more of it runs.
\* Of the call's record only what it did to the cache is kept.
Abort ==
    /\ pc # "idle"
    /\ call' = [NoCall EXCEPT !.asset = call.asset, !.outcome = "aborted",
                               !.startCache = call.startCache, !.wrote = call.wrote,
                               !.shortEnd = call.shortEnd, !.abortedIn = pc]
    /\ pc' = "idle"
    /\ rq' = IdleRq
    /\ inflight' = {}
    /\ res5m' = EmptyBundle
    /\ res4h' = EmptyBundle
    /\ UNCHANGED <<now, ttl, cache, lastSet, obs, enable_cache>>
    /\ UNCHANGED <<fn, okx, op, hist, tasks, proc, flows>>

NextAbort ==
    \/ \E a \in Assets : CallFetch(a)
    \/ SendRequest
    \/ ReceiveAny
    \/ BackoffSleep
    \/ ShortDone
    \/ DelaySleep
    \/ LongDone
    \/ Write5m
    \/ Write4h
    \/ IdleTick
    \/ Abort

SpecAbort == InitFetch /\ [][NextAbort]_vars

(***************************************************************************)
(* fetch_asset_indicators called from several threads on the one cache.    *)
(* A thread can be preempted between any two statements, so each cache     *)
(* write is a step of its own; the bulk requests and the 30 s sleep are    *)
(* the steps where a thread waits, and a sleeping thread lets the clock    *)
(* of all of them advance.  What a bulk request brings back is an input    *)
(* here.  `overlap` records that a call went on to its requests      *)
(* while another thread was inside a call for the same asset.              *)
(***************************************************************************)
\* The calls started in all threads together.
MaxCalls == 3

\* The clock of the threads stops here; it is read in steps of the sleep.
MaxFlowClock == 180

\* Another thread is inside a call for the asset.
InFlight(f, asset) ==
    \E g \in Flows \ {f} : flows.run[g].pc # "idle" /\ flows.run[g].asset = asset

\* What fetch_bulk_indicators returns for a horizon: every series, or none
\* of the 4h ones.
FlowBulks(interval) ==
    IF interval = "5m" THEN {ParseBulk(Body5mFull)}
    ELSE {ParseBulk(Body4hFull), NoResults}

\* A thread calls fetch_asset_indicators: the cache probe, then either the
\* cached result is returned or the 5m bulk request is entered.
FlowCall ==
    \E f \in Flows, asset \in Assets :
        /\ flows.run[f].pc = "idle"
        /\ flows.calls < MaxCalls
        /\ LET r5 == CacheGetResult(cache, Key(asset, "5m"), now, ttl)
               c1 == CacheAfterGet(cache, Key(asset, "5m"), now, ttl)
               r4 == CacheGetResult(c1, Key(asset, "4h"), now, ttl)
               c2 == CacheAfterGet(c1, Key(asset, "4h"), now, ttl)
           IN /\ cache' = IF enable_cache THEN c2 ELSE cache
              /\ flows' = IF enable_cache /\ ProbeHit(r5, r4)
                          THEN [flows EXCEPT !.calls = @ + 1]
                          ELSE [flows EXCEPT !.calls = @ + 1,
                                             !.overlap = @ \/ InFlight(f, asset),
                                             !.run[f] = [pc |-> "short", id |-> flows.calls + 1,
                                                         asset |-> asset,
                                                         res5m |-> EmptyBundle,
                                                         res4h |-> EmptyBundle]]
        /\ UNCHANGED <<now, ttl, lastSet, obs, clientVars, fn, okx, op, hist, tasks, proc>>

\* fetch_bulk_indicators(symbol, "5m", ...) returns in a thread; the 5m
\* series are extracted and time.sleep(30) begins.
FlowShortDone ==
    \E f \in Flows, bulk \in FlowBulks("5m") :
        /\ flows.run[f].pc = "short"
        /\ flows' = [flows EXCEPT !.run[f].pc = "delay", !.run[f].res5m = Extract5m(bulk)]
        /\ UNCHANGED <<cacheVars, clientVars, fn, okx, op, hist, tasks, proc>>

\* time.sleep(30) ends in a thread and the 4h bulk request is entered.
FlowDelayDone ==
    \E f \in Flows :
        /\ flows.run[f].pc = "delay"
        /\ now + InterRequestDelay <= MaxFlowClock
        /\ now' = now + InterRequestDelay
        /\ flows' = [flows EXCEPT !.run[f].pc = "long"]
        /\ UNCHANGED <<ttl, cache, lastSet, obs, clientVars, fn, okx, op, hist, tasks, proc>>

\* fetch_bulk_indicators(symbol, "4h", ...) returns in a thread; the 4h
\* values are extracted and the emptiness check runs.
FlowLongDone ==
    \E f \in Flows, bulk \in FlowBulks("4h") :
        /\ flows.run[f].pc = "long"
        /\ flows' = IF HardFailure(flows.run[f].res5m, Extract4h(bulk)) \/ ~enable_cache
                    THEN [flows EXCEPT !.run[f] = IdleFlow]
                    ELSE [flows EXCEPT !.run[f].pc = "write5m",
                                       !.run[f].res4h = Extract4h(bulk)]
        /\ UNCHANGED <<cacheVars, clientVars, fn, okx, op, hist, tasks, proc>>

\* A key of `by` set to the call that wrote it.
WrittenBy(by, key, id) == [k \in DOMAIN by \cup {key} |-> IF k = key THEN id ELSE by[k]]

\* self.cache.set(asset, "5m", result["5m"]) in a thread
FlowWrite5m ==
    \E f \in Flows :
        /\ flows.run[f].pc = "write5m"
        /\ cache' = CacheAfterSet(cache, Key(flows.run[f].asset, "5m"), now,
                                  flows.run[f].res5m)
        /\ flows' = [flows EXCEPT !.run[f].pc = "write4h",
                                  !.by = WrittenBy(@, Key(flows.run[f].asset, "5m"),
                                                   flows.run[f].id)]
        /\ UNCHANGED <<now, ttl, lastSet, obs, clientVars, fn, okx, op, hist, tasks, proc>>

MutFlowWrite4hKeepsEntry ==
    \E f \in Flows :
        /\ flows.run[f].pc = "write4h"
        /\ cache' = IF Key(flows.run[f].asset, "4h") \in DOMAIN cache THEN cache
                    ELSE CacheAfterSet(cache, Key(flows.run[f].asset, "4h"), now,
                                       flows.run[f].res4h)
        /\ flows' = [flows EXCEPT !.run[f] = IdleFlow,
                                  !.by = IF Key(flows.run[f].asset, "4h") \in DOMAIN cache THEN @
                                         ELSE WrittenBy(@, Key(flows.run[f].asset, "4h"),
                                                        flows.run[f].id)]
        /\ UNCHANGED <<now, ttl, lastSet, obs, clientVars, fn, okx, op, hist, tasks, proc>>

\* self.cache.set(asset, long_term_interval, result[long_term_interval]);
\* return result
FlowWrite4h ==
    \E f \in Flows :
        /\ flows.run[f].pc = "write4h"
        /\ cache' = CacheAfterSet(cache, Key(flows.run[f].asset, "4h"), now,
                                  flows.run[f].res4h)
        /\ flows' = [flows EXCEPT !.run[f] = IdleFlow,
                                  !.by = WrittenBy(@, Key(flows.run[f].asset, "4h"),
                                                   flows.run[f].id)]
        /\ UNCHANGED <<now, ttl, lastSet, obs, clientVars, fn, okx, op, hist, tasks, proc>>

\* Time passes while the threads run or wait.
FlowTick ==
    /\ now + InterRequestDelay <= MaxFlowClock
    /\ now' = now + InterRequestDelay
    /\ UNCHANGED <<ttl, cache, lastSet, obs, enable_cache, clientVars, fn, okx, op, hist,
                   tasks, proc, flows>>

InitFlows == InitFetch /\ enable_cache

NextFlows ==
    \/ FlowCall
    \/ FlowShortDone
    \/ FlowDelayDone
    \/ FlowLongDone
    \/ FlowWrite5m
    \/ FlowWrite4h
    \/ FlowTick

SpecFlows == InitFlows /\ [][NextFlows]_vars

(***************************************************************************)
(* The request helpers on their own.                                       *)
(***************************************************************************)
NextRetry ==
    \/ \E h \in {"get", "post"} : StartRequest(h)
    \/ SendRequest
    \/ ReceiveAny
    \/ BackoffSleep

SpecRetry ==
    /\ InitFetch
    /\ [][NextRetry]_vars
    /\ WF_vars(SendRequest)
    /\ WF_vars(ReceiveAny)
    /\ WF_vars(BackoffSleep)

(***************************************************************************)
(* The normalization helpers on their own, applied to every input shape    *)
(***************************************************************************)
MaxLen == 2

\* What a list inside a TAAPI result may hold: numbers with more than four
\* decimals, null, a string.
Elems == {JNum(123456), JNum(-5004), JNull, JStr("x")}

Lists == UNION {[1..n -> Elems] : n \in 0..MaxLen}

\* What a result may hold under a key: a list, a number, null, a string, a mapping.
Held == {JList(l) : l \in Lists} \cup
        {JNum(6543215), JNum(0), JNull, JStr("x"), JDict([x \in {} |-> JNull])}

ValueKeys == {"value", "valueMACD"}

\* The `data` arguments: absent, empty, non-mapping, mappings with one key.
Shapes == {JNull, JDict([x \in {} |-> JNull]), JList(<<>>), JStr(""), JNum(0),
           JNum(5), JStr("value"), JList(<<JNum(1)>>)} \cup
          {JDict([x \in {k} |-> h]) : k \in ValueKeys \cup {"error"}, h \in Held}

\* self._extract_series(data, value_key) is called.
ApplyExtractSeries ==
    /\ \E data \in Shapes, value_key \in ValueKeys :
          fn' = [name |-> "_extract_series", data |-> data, key |-> value_key,
                 out |-> ExtractSeries(data, value_key)]
    /\ UNCHANGED <<cacheVars, clientVars, okxVars, tasks, proc, flows>>

\* self._extract_value(data, value_key) is called.
ApplyExtractValue ==
    /\ \E data \in Shapes, value_key \in ValueKeys :
          fn' = [name |-> "_extract_value", data |-> data, key |-> value_key,
                 out |-> ExtractValue(data, value_key)]
    /\ UNCHANGED <<cacheVars, clientVars, okxVars, tasks, proc, flows>>

InitNorm == InitFetch /\ enable_cache

NextNorm ==
    \/ ApplyExtractSeries
    \/ ApplyExtractValue

SpecNorm == InitNorm /\ [][NextNorm]_vars

(***************************************************************************)
(* The symbol conversions of OKXAPI on their own                           *)
(***************************************************************************)
\* Asset names and symbols are sequences of characters.
Slash == <<"/">>
UnifiedSuffix == <<"/", "U", "S", "D", "T", ":", "U", "S", "D", "T">>
SwapMark == <<"-", "S", "W", "A", "P">>
InstSuffix == <<"-", "U", "S", "D", "T", "-", "S", "W", "A", "P">>

\* sub in s
Contains(s, sub) ==
    \E i \in 1..(Len(s) - Len(sub) + 1) : SubSeq(s, i, i + Len(sub) - 1) = sub

\* s.split(sep)[0] for a one-character sep
BeforeFirst(s, sep) ==
    IF \E i \in 1..Len(s) : s[i] = sep
    THEN SubSeq(s, 1, (CHOOSE i \in 1..Len(s) :
                         s[i] = sep /\ \A j \in 1..(i - 1) : s[j] # sep) - 1)
    ELSE s

\* s.replace(sub, ""): every occurrence, scanning from the left
RECURSIVE Removed(_, _)
Removed(s, sub) ==
    IF Len(s) < Len(sub) THEN s
    ELSE IF SubSeq(s, 1, Len(sub)) = sub
         THEN Removed(SubSeq(s, Len(sub) + 1, Len(s)), sub)
         ELSE <<Head(s)>> \o Removed(Tail(s), sub)

\* _get_symbol
GetSymbol(asset) == IF Contains(asset, Slash) THEN asset ELSE asset \o UnifiedSuffix

\* _get_inst_id
GetInstId(asset) == IF Contains(asset, SwapMark) THEN asset ELSE asset \o InstSuffix

MutStripsSwapOnly(symbol) ==
    IF Contains(symbol, Slash) THEN BeforeFirst(symbol, "/")
    ELSE IF Contains(symbol, InstSuffix) THEN Removed(symbol, SwapMark)
    ELSE symbol

\* _get_asset_from_symbol
GetAssetFromSymbol(symbol) ==
    IF Contains(symbol, Slash) THEN BeforeFirst(symbol, "/")
    ELSE IF Contains(symbol, InstSuffix) THEN Removed(symbol, InstSuffix)
    ELSE symbol

MaxTicker == 3

TickerChars == {"B", "T", "S"}

\* Coin tickers: letters only.
Tickers == UNION {[1..n -> TickerChars] : n \in 1..MaxTicker}

\* What the conversions are given: a ticker, or a name already converted
\* (an instrument id, a coin-margined instrument id, a unified symbol).
SymbolInputs ==
    Tickers \cup {t \o InstSuffix : t \in Tickers}
            \cup {t \o <<"-", "U", "S", "D">> \o SwapMark : t \in Tickers}
            \cup {t \o UnifiedSuffix : t \in Tickers}

\* self._get_asset_from_symbol(self._get_inst_id(asset))
ApplyViaInstId ==
    /\ \E asset \in SymbolInputs :
          fn' = [name |-> "_get_inst_id", data |-> asset, key |-> "",
                 out |-> [symbol |-> GetInstId(asset),
                          asset |-> GetAssetFromSymbol(GetInstId(asset))]]
    /\ UNCHANGED <<cacheVars, clientVars, okxVars, tasks, proc, flows>>

\* self._get_asset_from_symbol(self._get_symbol(asset))
ApplyViaSymbol ==
    /\ \E asset \in SymbolInputs :
          fn' = [name |-> "_get_symbol", data |-> asset, key |-> "",
                 out |-> [symbol |-> GetSymbol(asset),
                          asset |-> GetAssetFromSymbol(GetSymbol(asset))]]
    /\ UNCHANGED <<cacheVars, clientVars, okxVars, tasks, proc, flows>>

InitSym == InitFetch /\ enable_cache

NextSym ==
    \/ ApplyViaInstId
    \/ ApplyViaSymbol

SpecSym == InitSym /\ [][NextSym]_vars

(***************************************************************************)
(* OKXAPI.extract_oids on its own                                          *)
(***************************************************************************)
MaxItems == 2

\* d['ordId'] and d['algoId'] of the entries of a raw data list, in order
RECURSIVE ItemIds(_)
ItemIds(items) ==
    IF items = <<>> THEN <<>>
    ELSE LET d == Head(items).v
         IN (IF "ordId" \in DOMAIN d THEN <<d["ordId"]>> ELSE <<>>) \o
            (IF "algoId" \in DOMAIN d THEN <<d["algoId"]>> ELSE <<>>) \o
            ItemIds(Tail(items))

\* extract_oids: the list `oids` before deduplication
CollectedOids(order_result) ==
    LET r == order_result.v
        top == IF "id" \in DOMAIN r THEN <<r["id"]>> ELSE <<>>
        raw_data == IF "data" \in DOMAIN r["info"].v THEN r["info"].v["data"] ELSE JList(<<>>)
        nested == IF "info" \in DOMAIN r /\ r["info"].t = "dict"
                  THEN IF Truthy(raw_data) THEN ItemIds(raw_data.v) ELSE <<>>
                  ELSE <<>>
        direct == IF /\ "code" \in DOMAIN r
                     /\ r["code"] = JStr("0")
                     /\ "data" \in DOMAIN r
                     /\ Truthy(r["data"])
                  THEN ItemIds(r["data"].v)
                  ELSE <<>>
    IN top \o nested \o direct

MutNoDedup(oids) == {oids}

\* list(set(oids)): each collected id once, in an order Python does not fix
Deduplicated(oids) ==
    LET ids == {oids[i] : i \in DOMAIN oids}
    IN {l \in [1..Cardinality(ids) -> ids] : \A i, j \in DOMAIN l : l[i] = l[j] => i = j}

\* The entries a raw data list may hold.
OidItems == {JDict([ordId |-> JStr("o1")]), JDict([algoId |-> JStr("a1")]),
             JDict([ordId |-> JStr("o1"), algoId |-> JStr("a1")]),
             JDict([sCode |-> JStr("0")])}

OidLists == UNION {[1..n -> OidItems] : n \in 0..MaxItems}

\* A response: each of id, info, code, data absent (<<>>) or holding a value.
ResponseOf(id, info, code, data) ==
    LET ch == [id |-> id, info |-> info, code |-> code, data |-> data]
    IN JDict([k \in {x \in DOMAIN ch : ch[x] # <<>>} |-> ch[k][1]])

OidResponses ==
    {ResponseOf(id, info, code, data) :
        id \in {None, Some(JStr("o1")), Some(JStr("x9"))},
        info \in {None, Some(JStr("raw")), Some(JDict([sCode |-> JStr("0")])),
                  Some(JDict([data |-> JNull]))} \cup
                 {Some(JDict([data |-> JList(l)])) : l \in OidLists},
        code \in {None, Some(JStr("0")), Some(JStr("2"))},
        data \in {None} \cup {Some(JList(l)) : l \in OidLists}}

\* extract_oids(order_result) is called.
CallExtractOids ==
    /\ fn.name = "none"
    /\ \E order_result \in OidResponses :
          fn' = [name |-> "extract_oids:call", data |-> order_result, key |-> "", out |-> JNull]
    /\ UNCHANGED <<cacheVars, clientVars, okxVars, tasks, proc, flows>>

\* extract_oids returns.
ReturnExtractOids ==
    /\ fn.name = "extract_oids:call"
    /\ \E oids \in Deduplicated(CollectedOids(fn.data)) :
          fn' = [fn EXCEPT !.name = "extract_oids", !.out = oids]
    /\ UNCHANGED <<cacheVars, clientVars, okxVars, tasks, proc, flows>>

InitOids == InitFetch /\ enable_cache

NextOids ==
    \/ CallExtractOids
    \/ ReturnExtractOids

SpecOids == InitOids /\ [][NextOids]_vars

(***************************************************************************)
(* OKXAPI: order placement and cancellation, one step per point where the  *)
(* coroutine calls the exchange and per point where the answer arrives.    *)
(* Amounts and contract sizes are in units of 0.001 coin.                  *)
(***************************************************************************)
MaxQueries == 2

\* One call to the exchange: what was called, with what, and the
\* _position_mode of the session at the moment it was sent. op.net lists the
\* calls of the operation in the order sent, op.failed those that raised,
\* op.rejected those answered with a code other than "0"; op.exch is what the
\* exchange holds while the operation runs (pending orders, positions).
Request(api, params) == [api |-> api, params |-> params, mode |-> okx.position_mode]

NoParams == [x \in {} |-> ""]

\* {"code": "error", "msg": msg}
ErrorResult(msg) == [code |-> "error", msg |-> msg]

\* What the exchange answered to the call that ended the operation.
Response(api) == [code |-> "0", api |-> api]

\* contractSize values load_markets may bring: 0.01, 1.0, 0, or none usable.
ContractSizes == {"10", "1000", "0", "missing"}

\* float(market.get('contractSize', 1.0)), 1.0 when that raises
ContractValueOf(m) ==
    CASE m = "10" -> 10
      [] m = "1000" -> 1000
      [] m = "0" -> 0
      [] OTHER -> 1000

MutContractsZeroWithoutValue(amount, ct_val) == IF ct_val > 0 THEN amount \div ct_val ELSE 0

\* int(amount / ct_val) if ct_val > 0 else 1
Contracts(amount, ct_val) == IF ct_val > 0 THEN amount \div ct_val ELSE 1

\* What private_get_account_config may answer: a posMode, an unrecognized
\* one, a reply without posMode, an empty data list, or an exception.
ConfigReplies == {"net_mode", "long_short_mode", "other_mode", "no_posMode", "no_data", "exception"}

MutStaysUnknown(reply) ==
    IF reply \in {"net_mode", "long_short_mode"} THEN reply ELSE "None"

\* _ensure_position_mode: the mode kept for a reply
PosModeFrom(reply) ==
    IF reply \in {"net_mode", "long_short_mode"} THEN reply ELSE "net_mode"

Placements == {"place_market_order", "place_take_profit", "place_stop_loss"}

Lookups == {"get_current_price", "get_open_interest", "get_funding_rate"}

\* The step that follows `await self._ensure_markets()` in an operation
\* that places no order.
AfterMarketsOther(name) ==
    CASE name = "cancel_order" -> "regular_cancel"
      [] name = "cancel_all_orders" -> "cancel_all"
      [] name = "get_open_orders" -> "list_regular"
      [] name = "get_user_state" -> "get_balance"
      [] name \in Lookups -> "lookup"

MutProtectiveSkipsMode(name) ==
    IF name = "place_market_order" THEN "ensure_position_mode"
    ELSE IF name \in Placements THEN "contract_value" ELSE AfterMarketsOther(name)

\* The step that follows `await self._ensure_markets()` in an operation.
AfterMarkets(name) ==
    IF name \in Placements THEN "ensure_position_mode" ELSE AfterMarketsOther(name)

MutMarketPosSideAlways(asset, side, sz, mode) ==
    [symbol |-> GetSymbol(asset), type |-> "market", side |-> side, amount |-> sz,
     params |-> [tdMode |-> "cross", posSide |-> IF side = "buy" THEN "long" ELSE "short"]]

\* create_order(symbol, 'market', side, sz_contracts, params)
MarketOrderParams(asset, side, sz, mode) ==
    [symbol |-> GetSymbol(asset), type |-> "market", side |-> side, amount |-> sz,
     params |-> IF mode = "long_short_mode"
                THEN [tdMode |-> "cross", posSide |-> IF side = "buy" THEN "long" ELSE "short"]
                ELSE [tdMode |-> "cross"]]

MutAlgoPosSideClosing(name, asset, is_buy, sz, px, mode) ==
    LET base == IF name = "place_take_profit"
                THEN [instId |-> GetInstId(asset), tdMode |-> "cross",
                      side |-> IF is_buy THEN "sell" ELSE "buy",
                      ordType |-> "conditional", sz |-> ToString(sz),
                      tpTriggerPx |-> px, tpOrdPx |-> "-1"]
                ELSE [instId |-> GetInstId(asset), tdMode |-> "cross",
                      side |-> IF is_buy THEN "sell" ELSE "buy",
                      ordType |-> "conditional", sz |-> ToString(sz),
                      slTriggerPx |-> px, slOrdPx |-> "-1"]
    IN IF mode = "long_short_mode"
       THEN [k \in DOMAIN base \cup {"posSide"} |->
               IF k = "posSide" THEN (IF is_buy THEN "short" ELSE "long") ELSE base[k]]
       ELSE base

\* params of private_post_trade_order_algo in place_take_profit / place_stop_loss
AlgoOrderParams(name, asset, is_buy, sz, px, mode) ==
    LET base == IF name = "place_take_profit"
                THEN [instId |-> GetInstId(asset), tdMode |-> "cross",
                      side |-> IF is_buy THEN "sell" ELSE "buy",
                      ordType |-> "conditional", sz |-> ToString(sz),
                      tpTriggerPx |-> px, tpOrdPx |-> "-1"]
                ELSE [instId |-> GetInstId(asset), tdMode |-> "cross",
                      side |-> IF is_buy THEN "sell" ELSE "buy",
                      ordType |-> "conditional", sz |-> ToString(sz),
                      slTriggerPx |-> px, slOrdPx |-> "-1"]
    IN IF mode = "long_short_mode"
       THEN [k \in DOMAIN base \cup {"posSide"} |->
               IF k = "posSide" THEN (IF is_buy THEN "long" ELSE "short") ELSE base[k]]
       ELSE base

OkxAssets == {<<"B", "T", "C">>}
Amounts == {1, 250, 2500}
TriggerPx == "65000.0"
Oids == {"o1"}

\* A call starts: nothing has been sent yet.
StartOp(name, asset, side, is_buy, amount, oid) ==
    [NoOp EXCEPT !.name = name, !.pc = "ensure_markets", !.outcome = "running",
                 !.asset = asset, !.side = side, !.is_buy = is_buy, !.amount = amount,
                 !.oid = oid]

\* place_buy_order / place_sell_order -> _place_market_order(asset, side, amount)
PlaceMarketOrder ==
    /\ op.pc = "done"
    /\ \E asset \in OkxAssets, side \in {"buy", "sell"}, amount \in Amounts :
          op' = StartOp("place_market_order", asset, side, side = "buy", amount, "")
    /\ UNCHANGED <<cacheVars, clientVars, fn, okx, hist, tasks, proc, flows>>

\* place_take_profit(asset, is_buy, amount, tp_price)
PlaceTakeProfit ==
    /\ op.pc = "done"
    /\ \E asset \in OkxAssets, is_buy \in BOOLEAN, amount \in Amounts :
          op' = StartOp("place_take_profit", asset, "", is_buy, amount, "")
    /\ UNCHANGED <<cacheVars, clientVars, fn, okx, hist, tasks, proc, flows>>

\* place_stop_loss(asset, is_buy, amount, sl_price)
PlaceStopLoss ==
    /\ op.pc = "done"
    /\ \E asset \in OkxAssets, is_buy \in BOOLEAN, amount \in Amounts :
          op' = StartOp("place_stop_loss", asset, "", is_buy, amount, "")
    /\ UNCHANGED <<cacheVars, clientVars, fn, okx, hist, tasks, proc, flows>>

\* cancel_order(asset, oid)
CancelOrder ==
    /\ op.pc = "done"
    /\ \E asset \in OkxAssets, oid \in Oids :
          op' = StartOp("cancel_order", asset, "", FALSE, 0, oid)
    /\ UNCHANGED <<cacheVars, clientVars, fn, okx, hist, tasks, proc, flows>>

\* _ensure_markets: nothing to do when loaded, otherwise load_markets is called.
EnsureMarkets ==
    /\ op.pc = "ensure_markets"
    /\ op' = IF okx.markets_loaded
             THEN [op EXCEPT !.pc = AfterMarkets(op.name)]
             ELSE [op EXCEPT !.pc = "load_markets",
                             !.net = Append(@, Request("load_markets", NoParams))]
    /\ UNCHANGED <<cacheVars, clientVars, fn, okx, hist, tasks, proc, flows>>

MutLoadFailureMemoized ==
    /\ op.pc = "load_markets"
    /\ \/ \E m \in ContractSizes :
            /\ okx' = [okx EXCEPT !.markets_loaded = TRUE, !.markets = m]
            /\ op' = [op EXCEPT !.pc = AfterMarkets(op.name)]
       \/ /\ op' = [op EXCEPT !.pc = "done", !.outcome = "raised",
                              !.failed = @ \cup {"load_markets"},
                              !.ret = ErrorResult("load_markets")]
          /\ okx' = [okx EXCEPT !.markets_loaded = TRUE]
    /\ UNCHANGED <<cacheVars, clientVars, fn, hist, tasks, proc, flows>>

\* load_markets answers: markets_loaded = True, or the exception is raised on.
LoadMarketsDone ==
    /\ op.pc = "load_markets"
    /\ \/ \E m \in ContractSizes :
            /\ okx' = [okx EXCEPT !.markets_loaded = TRUE, !.markets = m]
            /\ op' = [op EXCEPT !.pc = AfterMarkets(op.name)]
       \/ /\ op' = [op EXCEPT !.pc = "done", !.outcome = "raised",
                              !.failed = @ \cup {"load_markets"},
                              !.ret = ErrorResult("load_markets")]
          /\ UNCHANGED okx
    /\ UNCHANGED <<cacheVars, clientVars, fn, hist, tasks, proc, flows>>

MutAlwaysDetects ==
    /\ op.pc = "ensure_position_mode"
    /\ op' = [op EXCEPT !.pc = "account_config",
                        !.net = Append(@, Request("account_config", NoParams))]
    /\ hist' = [hist EXCEPT !.configQueries = IF @ < MaxQueries THEN @ + 1 ELSE @]
    /\ UNCHANGED <<cacheVars, clientVars, fn, okx, tasks, proc, flows>>

\* _ensure_position_mode: returns at once when the mode is known, otherwise
\* private_get_account_config is called.
EnsurePositionMode ==
    /\ op.pc = "ensure_position_mode"
    /\ IF okx.position_mode # "None"
       THEN /\ op' = [op EXCEPT !.pc = "contract_value"]
            /\ UNCHANGED hist
       ELSE /\ op' = [op EXCEPT !.pc = "account_config",
                                !.net = Append(@, Request("account_config", NoParams))]
            /\ hist' = [hist EXCEPT !.configQueries = IF @ < MaxQueries THEN @ + 1 ELSE @]
    /\ UNCHANGED <<cacheVars, clientVars, fn, okx, tasks, proc, flows>>

\* private_get_account_config answers or raises: the mode is set either way.
AccountConfigDone ==
    /\ op.pc = "account_config"
    /\ \E reply \in ConfigReplies :
          /\ okx' = [okx EXCEPT !.position_mode = PosModeFrom(reply)]
          /\ hist' = [hist EXCEPT !.reply = reply,
                                   !.detected = IF @ = "None" THEN PosModeFrom(reply) ELSE @]
          /\ op' = [op EXCEPT !.pc = "contract_value",
                              !.failed = IF reply = "exception"
                                         THEN @ \cup {"account_config"} ELSE @]
    /\ UNCHANGED <<cacheVars, clientVars, fn, tasks, proc, flows>>

\* _place_market_order from _get_contract_value on: the size in contracts,
\* the early return when it is 0, otherwise create_order is called.
MarketOrderSend ==
    /\ op.pc = "contract_value"
    /\ op.name = "place_market_order"
    /\ LET ct_val == ContractValueOf(okx.markets)
           sz_contracts == Contracts(op.amount, ct_val)
       IN op' = IF sz_contracts = 0
                THEN [op EXCEPT !.pc = "done", !.outcome = "error", !.ct_val = ct_val,
                                !.sz = sz_contracts, !.ret = ErrorResult("Amount too small")]
                ELSE [op EXCEPT !.pc = "create_order", !.ct_val = ct_val,
                                !.sz = sz_contracts,
                                !.net = Append(@, Request("create_order",
                                           MarketOrderParams(op.asset, op.side, sz_contracts,
                                                             okx.position_mode)))]
    /\ UNCHANGED <<cacheVars, clientVars, fn, okx, hist, tasks, proc, flows>>

\* create_order answers, or its exception is raised on.
CreateOrderDone ==
    /\ op.pc = "create_order"
    /\ \/ op' = [op EXCEPT !.pc = "done", !.outcome = "returned",
                           !.ret = Response("create_order")]
       \/ op' = [op EXCEPT !.pc = "done", !.outcome = "raised",
                           !.failed = @ \cup {"create_order"},
                           !.ret = ErrorResult("create_order")]
    /\ UNCHANGED <<cacheVars, clientVars, fn, okx, hist, tasks, proc, flows>>

\* place_take_profit / place_stop_loss from _get_contract_value on: the size
\* in contracts, then private_post_trade_order_algo is called.
AlgoOrderSend ==
    /\ op.pc = "contract_value"
    /\ op.name \in {"place_take_profit", "place_stop_loss"}
    /\ LET ct_val == ContractValueOf(okx.markets)
           sz_contracts == Contracts(op.amount, ct_val)
       IN op' = [op EXCEPT !.pc = "order_algo", !.ct_val = ct_val, !.sz = sz_contracts,
                           !.net = Append(@, Request("order_algo",
                                      AlgoOrderParams(op.name, op.asset, op.is_buy,
                                                      sz_contracts, TriggerPx,
                                                      okx.position_mode)))]
    /\ UNCHANGED <<cacheVars, clientVars, fn, okx, hist, tasks, proc, flows>>

\* private_post_trade_order_algo answers, or its exception is raised on.
AlgoOrderDone ==
    /\ op.pc = "order_algo"
    /\ \/ op' = [op EXCEPT !.pc = "done", !.outcome = "returned",
                           !.ret = Response("order_algo")]
       \/ op' = [op EXCEPT !.pc = "done", !.outcome = "raised",
                           !.failed = @ \cup {"order_algo"},
                           !.ret = ErrorResult("order_algo")]
    /\ UNCHANGED <<cacheVars, clientVars, fn, okx, hist, tasks, proc, flows>>

\* cancel_order: exchange.cancel_order(oid, symbol) is called first.
RegularCancelSend ==
    /\ op.pc = "regular_cancel"
    /\ op' = [op EXCEPT !.pc = "cancel_order",
                        !.net = Append(@, Request("cancel_order",
                                   [id |-> op.oid, symbol |-> GetSymbol(op.asset)]))]
    /\ UNCHANGED <<cacheVars, clientVars, fn, okx, hist, tasks, proc, flows>>

MutAlgoCancelAlways(ok) ==
    [op EXCEPT !.pc = "cancel_algo",
               !.failed = IF ok THEN @ ELSE @ \cup {"cancel_order"},
               !.net = Append(@, Request("cancel_algo",
                          [instId |-> GetInstId(op.asset), algoId |-> op.oid]))]

\* cancel_order after exchange.cancel_order: its answer is returned, or on
\* any exception private_post_trade_cancel_algo_order is called.
AfterRegularCancel(ok) ==
    IF ok
    THEN [op EXCEPT !.pc = "done", !.outcome = "returned", !.ret = Response("cancel_order")]
    ELSE [op EXCEPT !.pc = "cancel_algo",
                    !.failed = @ \cup {"cancel_order"},
                    !.net = Append(@, Request("cancel_algo",
                               [instId |-> GetInstId(op.asset), algoId |-> op.oid]))]

\* exchange.cancel_order answers or raises.
RegularCancelDone ==
    /\ op.pc = "cancel_order"
    /\ \E ok \in BOOLEAN : op' = AfterRegularCancel(ok)
    /\ UNCHANGED <<cacheVars, clientVars, fn, okx, hist, tasks, proc, flows>>

\* private_post_trade_cancel_algo_order answers, or its exception becomes
\* the error result.
AlgoCancelDone ==
    /\ op.pc = "cancel_algo"
    /\ \/ op' = [op EXCEPT !.pc = "done", !.outcome = "returned",
                           !.ret = Response("cancel_algo")]
       \/ op' = [op EXCEPT !.pc = "done", !.outcome = "error",
                           !.failed = @ \cup {"cancel_algo"},
                           !.ret = ErrorResult("cancel_algo")]
    /\ UNCHANGED <<cacheVars, clientVars, fn, okx, hist, tasks, proc, flows>>

\* get_current_price(asset) / get_open_interest(asset) / get_funding_rate(asset)
Lookup ==
    /\ op.pc = "done"
    /\ \E name \in Lookups, asset \in OkxAssets :
          op' = StartOp(name, asset, "", FALSE, 0, "")
    /\ UNCHANGED <<cacheVars, clientVars, fn, okx, hist, tasks, proc, flows>>

\* The exchange call of a lookup.
LookupApi(name) ==
    CASE name = "get_current_price" -> "fetch_ticker"
      [] name = "get_open_interest" -> "fetch_open_interest"
      [] name = "get_funding_rate" -> "fetch_funding_rate"

\* What a lookup's exchange call may answer under the key the lookup reads
\* ('last', 'openInterestAmount', 'fundingRate'): a number, null, nothing.
LookupReplies == {Some(JNum(65000)), Some(JNull), None}

\* What a lookup returns on any exception: 0.0 for the price, None otherwise.
LookupUnknown(name) == IF name = "get_current_price" THEN JNum(0) ELSE JNull

\* What a lookup returns for an answer of its exchange call:
\* float(ticker['last']), float(res.get(key, 0)), or the unknown value when
\* that raises.
LookupResult(name, reply) ==
    IF reply = None
    THEN IF name = "get_current_price" THEN LookupUnknown(name) ELSE JNum(0)
    ELSE IF reply[1].t = "num" THEN reply[1] ELSE LookupUnknown(name)

\* The lookup calls the exchange.
LookupSend ==
    /\ op.pc = "lookup"
    /\ op' = [op EXCEPT !.pc = "lookup_wait",
                        !.net = Append(@, Request(LookupApi(op.name),
                                   [symbol |-> GetSymbol(op.asset)]))]
    /\ UNCHANGED <<cacheVars, clientVars, fn, okx, hist, tasks, proc, flows>>

\* The exchange call of the lookup answers or raises; the lookup returns.
LookupDone ==
    /\ op.pc = "lookup_wait"
    /\ \/ \E reply \in LookupReplies :
            op' = [op EXCEPT !.pc = "done", !.outcome = "returned",
                             !.ret = [code |-> "value", value |-> LookupResult(op.name, reply)]]
       \/ op' = [op EXCEPT !.pc = "done", !.outcome = "returned",
                           !.failed = @ \cup {LookupApi(op.name)},
                           !.ret = [code |-> "value", value |-> LookupUnknown(op.name)]]
    /\ UNCHANGED <<cacheVars, clientVars, fn, okx, hist, tasks, proc, flows>>

\* Pending algo orders as private_get_trade_orders_algo_pending lists them.
AlgoTp == [instId |-> GetInstId(<<"B", "T", "C">>), algoId |-> "a1", side |-> "sell",
           sz |-> "3", tpTriggerPx |-> "70000", slTriggerPx |-> "", ordPx |-> ""]
AlgoSl == [instId |-> GetInstId(<<"B", "T", "C">>), algoId |-> "a2", side |-> "sell",
           sz |-> "3", tpTriggerPx |-> "", slTriggerPx |-> "60000", ordPx |-> ""]
AlgoBare == [instId |-> GetInstId(<<"B", "T", "C">>), algoId |-> "a3", side |-> "buy",
             sz |-> "25"]

PendingAlgoLists == {<<>>, <<AlgoTp>>, <<AlgoBare>>, <<AlgoTp, AlgoSl>>}

\* How a listing call may end: code "0" with the data, another code, an exception.
ListingReplies == {"ok", "rejected", "raise"}

\* {"status": "ok"}
StatusOk == [status |-> "ok"]

\* {"status": "error", "msg": str(e)}
StatusError(msg) == [status |-> "error", msg |-> msg]

\* cancel_all_orders(asset)
CancelAllOrders ==
    /\ op.pc = "done"
    /\ \E asset \in OkxAssets, algo \in PendingAlgoLists :
          op' = [StartOp("cancel_all_orders", asset, "", FALSE, 0, "") EXCEPT !.exch.algo = algo]
    /\ UNCHANGED <<cacheVars, clientVars, fn, okx, hist, tasks, proc, flows>>

\* cancel_all_orders: exchange.cancel_all_orders(symbol) is called.
CancelAllSend ==
    /\ op.pc = "cancel_all"
    /\ op' = [op EXCEPT !.pc = "cancel_all_wait",
                        !.net = Append(@, Request("cancel_all_orders",
                                   [symbol |-> GetSymbol(op.asset)]))]
    /\ UNCHANGED <<cacheVars, clientVars, fn, okx, hist, tasks, proc, flows>>

\* exchange.cancel_all_orders answers, and the pending algo orders of the
\* instrument are asked for; or it raises, and the error status is returned.
CancelAllDone ==
    /\ op.pc = "cancel_all_wait"
    /\ \/ op' = [op EXCEPT !.pc = "algo_pending_wait",
                           !.net = Append(@, Request("algo_pending",
                                      [instType |-> "SWAP", instId |-> GetInstId(op.asset)]))]
       \/ op' = [op EXCEPT !.pc = "done", !.outcome = "error",
                           !.failed = @ \cup {"cancel_all_orders"},
                           !.ret = StatusError("cancel_all_orders")]
    /\ UNCHANGED <<cacheVars, clientVars, fn, okx, hist, tasks, proc, flows>>

\* [{'instId': inst_id, 'algoId': o['algoId']} for o in algo_orders_res['data']]
AlgoIdsOf(inst_id, data) == [i \in DOMAIN data |-> [instId |-> inst_id, algoId |-> data[i].algoId]]

\* cancel_all_orders after the listing of pending algo orders: code "0" with
\* data sends the algo cancel, code "0" without data and any other code
\* return status ok, an exception returns status error.
AfterAlgoPending(reply) ==
    CASE reply = "raise" ->
            [op EXCEPT !.pc = "done", !.outcome = "error", !.failed = @ \cup {"algo_pending"},
                       !.ret = StatusError("algo_pending")]
      [] reply = "rejected" ->
            [op EXCEPT !.pc = "done", !.outcome = "returned",
                       !.rejected = @ \cup {"algo_pending"}, !.ret = StatusOk]
      [] OTHER ->
            IF op.exch.algo # <<>>
            THEN [op EXCEPT !.pc = "cancel_algos_wait",
                            !.net = Append(@, Request("cancel_algo",
                                       AlgoIdsOf(GetInstId(op.asset), op.exch.algo)))]
            ELSE [op EXCEPT !.pc = "done", !.outcome = "returned", !.ret = StatusOk]

\* private_get_trade_orders_algo_pending answers or raises.
AlgoPendingDone ==
    /\ op.pc = "algo_pending_wait"
    /\ \E reply \in ListingReplies : op' = AfterAlgoPending(reply)
    /\ UNCHANGED <<cacheVars, clientVars, fn, okx, hist, tasks, proc, flows>>

\* private_post_trade_cancel_algo_order answers, or its exception becomes
\* the error status.
CancelAlgosDone ==
    /\ op.pc = "cancel_algos_wait"
    /\ \/ op' = [op EXCEPT !.pc = "done", !.outcome = "returned", !.ret = StatusOk]
       \/ op' = [op EXCEPT !.pc = "done", !.outcome = "error",
                           !.failed = @ \cup {"cancel_algo"},
                           !.ret = StatusError("cancel_algo")]
    /\ UNCHANGED <<cacheVars, clientVars, fn, okx, hist, tasks, proc, flows>>

\* Pending regular orders as private_get_trade_orders_pending lists them.
RegLimit == [instId |-> GetInstId(<<"B", "T", "C">>), ordId |-> "r1", side |-> "buy",
             sz |-> "3", px |-> "65000", ordType |-> "limit"]
RegMarket == [instId |-> GetInstId(<<"B", "T", "C">>), ordId |-> "r2", side |-> "sell",
              sz |-> "25", px |-> "", ordType |-> "market"]

PendingRegularLists == {<<>>, <<RegLimit>>, <<RegLimit, RegMarket>>}

\* o.get(key, ""), for the keys whose values are strings
StrGet(o, key) == IF key \in DOMAIN o THEN o[key] ELSE ""

\* float(x) of the number strings the exchange sends here
Float(x) ==
    CASE x = "3" -> 3
      [] x = "25" -> 25
      [] x = "60000" -> 60000
      [] x = "65000" -> 65000
      [] x = "70000" -> 70000
      [] OTHER -> 0

\* float(o.get(key, 0) or default): a missing key and an empty string
\* both give the default.
FloatOr(o, key, default) == IF StrGet(o, key) # "" THEN Float(o[key]) ELSE default

\* float(o.get('sz', 0))
SzOf(o) == IF "sz" \in DOMAIN o THEN Float(o.sz) ELSE 0

\* The entry get_open_orders appends for a regular order.
RegularEntry(o, ct_val) ==
    [coin |-> GetAssetFromSymbol(o.instId), oid |-> o.ordId, is_buy |-> (o.side = "buy"),
     size |-> SzOf(o) * ct_val,
     price |-> FloatOr(o, "px", 0),
     trigger_price |-> None, order_type |-> o.ordType]

\* trigger_px = o.get("tpTriggerPx") or o.get("slTriggerPx")
TriggerPxOf(o) ==
    IF StrGet(o, "tpTriggerPx") # "" THEN o.tpTriggerPx ELSE StrGet(o, "slTriggerPx")

\* The entry get_open_orders appends for an algo order.
AlgoEntry(o, ct_val) ==
    [coin |-> GetAssetFromSymbol(o.instId), oid |-> o.algoId, is_buy |-> (o.side = "buy"),
     size |-> SzOf(o) * ct_val,
     price |-> FloatOr(o, "ordPx", -1),
     trigger_price |-> IF TriggerPxOf(o) # "" THEN Some(Float(TriggerPxOf(o))) ELSE None,
     order_type |-> "trigger"]

\* The list get_open_orders returns.
OrdersResult(orders) == [code |-> "orders", orders |-> orders]

\* get_open_orders()
GetOpenOrders ==
    /\ op.pc = "done"
    /\ \E regular \in PendingRegularLists, algo \in PendingAlgoLists :
          op' = [StartOp("get_open_orders", <<>>, "", FALSE, 0, "")
                    EXCEPT !.exch.regular = regular, !.exch.algo = algo]
    /\ UNCHANGED <<cacheVars, clientVars, fn, okx, hist, tasks, proc, flows>>

\* get_open_orders: private_get_trade_orders_pending is called.
ListRegularSend ==
    /\ op.pc = "list_regular"
    /\ op' = [op EXCEPT !.pc = "list_regular_wait",
                        !.net = Append(@, Request("orders_pending", [instType |-> "SWAP"]))]
    /\ UNCHANGED <<cacheVars, clientVars, fn, okx, hist, tasks, proc, flows>>

\* The request get_open_orders sends for the algo orders.
ListAlgoRequest == Request("orders_algo_pending", [instType |-> "SWAP", ordType |-> "conditional"])

\* get_open_orders after the regular listing: code "0" appends one entry per
\* listed order, another code appends nothing, and both go on to the algo
\* listing; an exception returns the (empty) list.
AfterListRegular(reply) ==
    CASE reply = "raise" ->
            [op EXCEPT !.pc = "done", !.outcome = "returned",
                       !.failed = @ \cup {"orders_pending"}, !.ret = OrdersResult(op.orders)]
      [] reply = "rejected" ->
            [op EXCEPT !.pc = "list_algo_wait", !.rejected = @ \cup {"orders_pending"},
                       !.net = Append(@, ListAlgoRequest)]
      [] OTHER ->
            [op EXCEPT !.pc = "list_algo_wait",
                       !.orders = [i \in DOMAIN op.exch.regular |->
                                      RegularEntry(op.exch.regular[i],
                                                   ContractValueOf(okx.markets))],
                       !.net = Append(@, ListAlgoRequest)]

\* private_get_trade_orders_pending answers or raises.
ListRegularDone ==
    /\ op.pc = "list_regular_wait"
    /\ \E reply \in ListingReplies : op' = AfterListRegular(reply)
    /\ UNCHANGED <<cacheVars, clientVars, fn, okx, hist, tasks, proc, flows>>

MutListAlgoRaises(reply) ==
    CASE reply = "raise" ->
            [op EXCEPT !.pc = "done", !.outcome = "raised",
                       !.failed = @ \cup {"orders_algo_pending"},
                       !.ret = ErrorResult("orders_algo_pending")]
      [] reply = "rejected" ->
            [op EXCEPT !.pc = "done", !.outcome = "returned",
                       !.rejected = @ \cup {"orders_algo_pending"},
                       !.ret = OrdersResult(op.orders)]
      [] OTHER ->
            [op EXCEPT !.pc = "done", !.outcome = "returned",
                       !.orders = @ \o [i \in DOMAIN op.exch.algo |->
                                           AlgoEntry(op.exch.algo[i],
                                                     ContractValueOf(okx.markets))],
                       !.ret = OrdersResult(op.orders \o
                                   [i \in DOMAIN op.exch.algo |->
                                       AlgoEntry(op.exch.algo[i],
                                                 ContractValueOf(okx.markets))])]

\* get_open_orders after the algo listing: code "0" appends one entry per
\* listed algo order; another code and an exception append nothing; the
\* list collected so far is returned.
AfterListAlgo(reply) ==
    CASE reply = "raise" ->
            [op EXCEPT !.pc = "done", !.outcome = "returned",
                       !.failed = @ \cup {"orders_algo_pending"},
                       !.ret = OrdersResult(op.orders)]
      [] reply = "rejected" ->
            [op EXCEPT !.pc = "done", !.outcome = "returned",
                       !.rejected = @ \cup {"orders_algo_pending"},
                       !.ret = OrdersResult(op.orders)]
      [] OTHER ->
            [op EXCEPT !.pc = "done", !.outcome = "returned",
                       !.orders = @ \o [i \in DOMAIN op.exch.algo |->
                                           AlgoEntry(op.exch.algo[i],
                                                     ContractValueOf(okx.markets))],
                       !.ret = OrdersResult(op.orders \o
                                   [i \in DOMAIN op.exch.algo |->
                                       AlgoEntry(op.exch.algo[i],
                                                 ContractValueOf(okx.markets))])]

\* private_get_trade_orders_algo_pending answers or raises.
ListAlgoDone ==
    /\ op.pc = "list_algo_wait"
    /\ \E reply \in ListingReplies : op' = AfterListAlgo(reply)
    /\ UNCHANGED <<cacheVars, clientVars, fn, okx, hist, tasks, proc, flows>>

\* Positions as exchange.fetch_positions() returns them: contracts is a
\* number or None, the side is long or short, contractSize is the market's
\* (in 0.001 coin), and the price fields are numbers or None.
PosLong == [symbol |-> GetSymbol(<<"B", "T", "C">>), contracts |-> Some(3), side |-> "long",
            contractSize |-> 10, entryPrice |-> Some(65000), markPrice |-> Some(66000),
            unrealizedPnl |-> Some(30), leverage |-> Some(5), liquidationPrice |-> None]
PosShort == [symbol |-> GetSymbol(<<"S", "T">>), contracts |-> Some(2), side |-> "short",
             contractSize |-> 1000, entryPrice |-> Some(100), markPrice |-> Some(90),
             unrealizedPnl |-> Some(20), leverage |-> None, liquidationPrice |-> Some(150)]
PosFlat == [symbol |-> GetSymbol(<<"B", "T", "C">>), contracts |-> Some(0), side |-> "long",
            contractSize |-> 10, entryPrice |-> None, markPrice |-> Some(66000),
            unrealizedPnl |-> None, leverage |-> Some(5), liquidationPrice |-> None]
PosEmpty == [symbol |-> GetSymbol(<<"S", "T">>), contracts |-> None, side |-> "short",
             contractSize |-> 1000, entryPrice |-> None, markPrice |-> None,
             unrealizedPnl |-> None, leverage |-> None, liquidationPrice |-> None]

MaxPositions == 2

PositionLists ==
    UNION {[1..n -> {PosLong, PosShort, PosFlat, PosEmpty}] : n \in 0..MaxPositions}

\* What exchange.fetch_balance() returns: the USDT entry (free, total) and
\* info.data[0].totalEq, each possibly absent.
BalanceReplies ==
    {[USDT |-> Some([free |-> 100, total |-> 150]), totalEq |-> Some(200)],
     [USDT |-> Some([free |-> 100, total |-> 150]), totalEq |-> Some(0)],
     [USDT |-> Some([free |-> 100, total |-> 150]), totalEq |-> None],
     [USDT |-> None, totalEq |-> None]}

\* balance = float(balance_data['USDT'].get('free', 0.0)) if 'USDT' in balance_data
BalanceOf(b) == IF b.USDT # None THEN b.USDT[1].free ELSE 0

\* total_equity: totalEq of info.data[0], and USDT.total when that is 0.
TotalEquityOf(b) ==
    LET eq == IF b.totalEq # None THEN b.totalEq[1] ELSE 0
    IN IF eq = 0 /\ b.USDT # None THEN b.USDT[1].total ELSE eq

\* float(x or default)
NumOr(x, default) == IF x = None \/ x = Some(0) THEN default ELSE x[1]

\* abs(x)
Abs(x) == IF x < 0 THEN -x ELSE x

MutSizeUnsigned(side, size_coins) == Abs(size_coins)

\* size_coins = -abs(size_coins) if side == 'short' else abs(size_coins)
SignedSize(side, size_coins) == IF side = "short" THEN -Abs(size_coins) ELSE Abs(size_coins)

\* The dict get_user_state appends for a position with contracts.
EnrichedPosition(pos) ==
    LET asset == GetAssetFromSymbol(pos.symbol)
        size_coins == SignedSize(pos.side, NumOr(pos.contracts, 0) * pos.contractSize)
    IN [symbol |-> asset, coin |-> asset, quantity |-> size_coins,
        entry_price |-> NumOr(pos.entryPrice, 0), current_price |-> NumOr(pos.markPrice, 0),
        liquidation_price |-> NumOr(pos.liquidationPrice, 0),
        unrealized_pnl |-> NumOr(pos.unrealizedPnl, 0), leverage |-> NumOr(pos.leverage, 1),
        pnl |-> NumOr(pos.unrealizedPnl, 0), szi |-> size_coins,
        entryPx |-> NumOr(pos.entryPrice, 0)]

\* enriched_positions after the loop: positions whose contracts are None
\* or 0 are skipped.
RECURSIVE EnrichedPositions(_)
EnrichedPositions(positions) ==
    IF positions = <<>> THEN <<>>
    ELSE IF NumOr(Head(positions).contracts, 0) = 0
         THEN EnrichedPositions(Tail(positions))
         ELSE <<EnrichedPosition(Head(positions))>> \o EnrichedPositions(Tail(positions))

\* The dict get_user_state returns.
UserState(balance, total_equity, enriched) ==
    [code |-> "state", balance |-> balance, total_value |-> total_equity,
     positions |-> enriched, withdrawable |-> balance, accountValue |-> total_equity,
     assetPositions |-> [i \in DOMAIN enriched |-> [position |-> enriched[i]]]]

\* get_user_state()
GetUserState ==
    /\ op.pc = "done"
    /\ \E positions \in PositionLists :
          op' = [StartOp("get_user_state", <<>>, "", FALSE, 0, "")
                    EXCEPT !.exch.positions = positions]
    /\ UNCHANGED <<cacheVars, clientVars, fn, okx, hist, tasks, proc, flows>>

\* get_user_state: exchange.fetch_balance({'type': 'swap'}) is called.
BalanceSend ==
    /\ op.pc = "get_balance"
    /\ op' = [op EXCEPT !.pc = "balance_wait",
                        !.net = Append(@, Request("fetch_balance", [type |-> "swap"]))]
    /\ UNCHANGED <<cacheVars, clientVars, fn, okx, hist, tasks, proc, flows>>

\* fetch_balance answers: balance and equity are read and fetch_positions
\* is called; or it raises, and the state is returned with both at 0 and no
\* positions.
BalanceDone ==
    /\ op.pc = "balance_wait"
    /\ \/ \E b \in BalanceReplies :
             op' = [op EXCEPT !.pc = "positions_wait", !.balance = BalanceOf(b),
                              !.exch.balance = Some(b),
                              !.total_equity = TotalEquityOf(b),
                              !.net = Append(@, Request("fetch_positions", NoParams))]
       \/ op' = [op EXCEPT !.pc = "done", !.outcome = "returned",
                           !.failed = @ \cup {"fetch_balance"},
                           !.ret = UserState(0, 0, <<>>)]
    /\ UNCHANGED <<cacheVars, clientVars, fn, okx, hist, tasks, proc, flows>>

MutPositionsFailureDropsBalance ==
    /\ op.pc = "positions_wait"
    /\ \/ op' = [op EXCEPT !.pc = "done", !.outcome = "returned",
                           !.ret = UserState(op.balance, op.total_equity,
                                             EnrichedPositions(op.exch.positions))]
       \/ op' = [op EXCEPT !.pc = "done", !.outcome = "returned",
                           !.failed = @ \cup {"fetch_positions"},
                           !.ret = UserState(0, 0, <<>>)]
    /\ UNCHANGED <<cacheVars, clientVars, fn, okx, hist, tasks, proc, flows>>

\* fetch_positions answers and the positions with contracts are returned
\* with the balance; or it raises, and the balance is returned with no
\* positions.
PositionsDone ==
    /\ op.pc = "positions_wait"
    /\ \/ op' = [op EXCEPT !.pc = "done", !.outcome = "returned",
                           !.ret = UserState(op.balance, op.total_equity,
                                             EnrichedPositions(op.exch.positions))]
       \/ op' = [op EXCEPT !.pc = "done", !.outcome = "returned",
                           !.failed = @ \cup {"fetch_positions"},
                           !.ret = UserState(op.balance, op.total_equity, <<>>)]
    /\ UNCHANGED <<cacheVars, clientVars, fn, okx, hist, tasks, proc, flows>>

InitOkx == InitFetch /\ enable_cache

NextOkx ==
    \/ PlaceMarketOrder
    \/ PlaceTakeProfit
    \/ PlaceStopLoss
    \/ CancelOrder
    \/ EnsureMarkets
    \/ LoadMarketsDone
    \/ EnsurePositionMode
    \/ AccountConfigDone
    \/ MarketOrderSend
    \/ CreateOrderDone
    \/ AlgoOrderSend
    \/ AlgoOrderDone
    \/ RegularCancelSend
    \/ RegularCancelDone
    \/ AlgoCancelDone
    \/ Lookup
    \/ LookupSend
    \/ LookupDone
    \/ CancelAllOrders
    \/ CancelAllSend
    \/ CancelAllDone
    \/ AlgoPendingDone
    \/ CancelAlgosDone
    \/ GetOpenOrders
    \/ ListRegularSend
    \/ ListRegularDone
    \/ ListAlgoDone
    \/ GetUserState
    \/ BalanceSend
    \/ BalanceDone
    \/ PositionsDone

SpecOkx == InitOkx /\ [][NextOkx]_vars

(***************************************************************************)
(* Placements running concurrently on one session.  A coroutine runs       *)
(* without interruption up to an await that suspends it, so each action is *)
(* the stretch of a placement between two suspensions, up to the point     *)
(* where _ensure_position_mode has returned.                               *)
(***************************************************************************)

\* _ensure_position_mode up to its await, for a task that finds
\* _position_mode = mode: return at once when it is set, otherwise
\* private_get_account_config is called and the task waits.
TaskEnsurePositionMode(task, mode) ==
    IF mode # "None"
    THEN [task EXCEPT !.pc = "done", !.used = Some(mode)]
    ELSE [task EXCEPT !.pc = "account_config", !.queried = TRUE]

\* A task starts a placement: _ensure_markets, which calls load_markets
\* and waits when the markets are not loaded, then _ensure_position_mode.
TaskPlace ==
    \E t \in Tasks :
        /\ tasks[t].pc = "idle"
        /\ \E name \in Placements :
              tasks' = [tasks EXCEPT ![t] =
                           IF okx.markets_loaded
                           THEN TaskEnsurePositionMode([@ EXCEPT !.name = name], okx.position_mode)
                           ELSE [@ EXCEPT !.name = name, !.pc = "load_markets"]]
        /\ UNCHANGED <<cacheVars, clientVars, fn, okx, op, hist, proc, flows>>

\* load_markets answers for a waiting task: markets_loaded = True and
\* _ensure_position_mode follows; or it raises and the placement raises.
TaskLoadMarketsDone ==
    \E t \in Tasks :
        /\ tasks[t].pc = "load_markets"
        /\ \/ \E m \in ContractSizes :
                /\ okx' = [okx EXCEPT !.markets_loaded = TRUE, !.markets = m]
                /\ tasks' = [tasks EXCEPT ![t] = TaskEnsurePositionMode(@, okx.position_mode)]
           \/ /\ tasks' = [tasks EXCEPT ![t] = [@ EXCEPT !.pc = "raised"]]
              /\ UNCHANGED okx
        /\ UNCHANGED <<cacheVars, clientVars, fn, op, hist, proc, flows>>

\* private_get_account_config answers or raises for a waiting task, which
\* assigns _position_mode and goes on with it.
TaskAccountConfigDone ==
    \E t \in Tasks :
        /\ tasks[t].pc = "account_config"
        /\ \E reply \in ConfigReplies :
              /\ okx' = [okx EXCEPT !.position_mode = PosModeFrom(reply)]
              /\ tasks' = [tasks EXCEPT ![t] = [@ EXCEPT !.pc = "done",
                                                        !.wrote = Some(PosModeFrom(reply)),
                                                        !.used = Some(PosModeFrom(reply))]]
        /\ UNCHANGED <<cacheVars, clientVars, fn, op, hist, proc, flows>>

InitRace == InitFetch /\ enable_cache

NextRace ==
    \/ TaskPlace
    \/ TaskLoadMarketsDone
    \/ TaskAccountConfigDone

SpecRace == InitRace /\ [][NextRace]_vars

(***************************************************************************)
(* Claims about fetch_asset_indicators, checked under SpecFetch.           *)
(***************************************************************************)
CallKey5m == Key(call.asset, "5m")
CallKey4h == Key(call.asset, "4h")

\* When the call started, caching was enabled and both horizon entries of
\* the asset were stored and not older than ttl.
BothCachedAtCall ==
    /\ call.outcome # "none"
    /\ enable_cache
    /\ CallKey5m \in DOMAIN call.startCache
    /\ CallKey4h \in DOMAIN call.startCache
    /\ call.startedAt - call.startCache[CallKey5m].timestamp <= ttl
    /\ call.startedAt - call.startCache[CallKey4h].timestamp <= ttl

\* The call went past the cache probe and both bulk fetches have ended.
MissCompleted == call.outcome # "none" /\ call.longEnd # ""

\* An indicator that came back empty: [] for a series, None for a value.
Absent(j) == j = JNull \/ j = JList(<<>>)

AllAbsent(bundle) == \A f \in DOMAIN bundle : Absent(bundle[f])

\* C5: with caching enabled and both the 5m and the 4h entry of the asset
\* cached and unexpired when the call starts, fetch_asset_indicators
\* returns exactly those two bundles at once: no upstream request, no
\* rate-limit delay, no cache write.
C5_ProbeHitReturnsCached ==
    BothCachedAtCall =>
        /\ call.outcome = "returned"
        /\ call.ret = Some([short |-> call.startCache[CallKey5m].data,
                            long  |-> call.startCache[CallKey4h].data])
        /\ call.endedAt = call.startedAt
        /\ ~call.netUsed /\ ~call.delayed /\ ~call.wrote
        /\ cache = call.startCache
        /\ pc = "idle" /\ rq.phase = "idle" /\ inflight = {}

\* C5 witness: a call answered from entries whose age is exactly ttl.
C5_Witness ==
    /\ BothCachedAtCall
    /\ call.outcome = "returned"
    /\ call.startedAt - call.startCache[CallKey5m].timestamp = ttl
    /\ call.ret # None

C7_AllEmptyFails ==
    (MissCompleted /\ AllAbsent(res5m) /\ AllAbsent(res4h)) => call.outcome # "returned"

\* C8: the call fails only when both horizons are entirely empty; when some
\* indicator of some horizon is not empty it returns the result, and a
\* horizon whose bulk request failed has all its fields empty.
C8_FailsOnlyWhenBothEmpty ==
    /\ call.outcome = "raised" => (AllAbsent(res5m) /\ AllAbsent(res4h))
    /\ (MissCompleted /\ ~(AllAbsent(res5m) /\ AllAbsent(res4h))) =>
          /\ call.outcome \in {"running", "returned"}
          /\ call.outcome = "running" => pc \in {"write5m", "write4h"}
          /\ call.outcome = "returned" =>
                /\ call.ret = Some([short |-> res5m, long |-> res4h])
                /\ DOMAIN call.ret[1].short = {"ema20", "macd", "rsi7", "rsi14"}
                /\ DOMAIN call.ret[1].long =
                      {"ema20", "ema50", "atr3", "atr14", "macd", "rsi14"}
                /\ call.shortEnd # "returned" => AllAbsent(call.ret[1].short)
                /\ call.longEnd # "returned" => AllAbsent(call.ret[1].long)

\* C8 witness: the 5m request used up its retries, the 4h request
\* succeeded, and the call returned the 4h values with an empty 5m side.
C8_Witness ==
    /\ call.outcome = "returned"
    /\ call.shortEnd = "exhausted"
    /\ call.longEnd = "returned"
    /\ AllAbsent(call.ret[1].short)
    /\ ~AllAbsent(call.ret[1].long)

\* The call returned from a cache miss with caching enabled.
ReturnedFromMiss == call.outcome = "returned" /\ MissCompleted /\ enable_cache

\* C9: after a normal return from a cache miss with caching enabled the
\* cache holds (asset, 5m) and (asset, 4h) with exactly the two bundles
\* returned, each stamped with the time of the write, and a call for the
\* same asset made right then is answered from the cache.
C9_MissWritesBothEntries ==
    /\ [](ReturnedFromMiss =>
            /\ CallKey5m \in DOMAIN cache /\ CallKey4h \in DOMAIN cache
            /\ cache[CallKey5m] = Entry(call.endedAt, call.ret[1].short)
            /\ cache[CallKey4h] = Entry(call.endedAt, call.ret[1].long))
    /\ [][ ( /\ ReturnedFromMiss
             /\ now = call.endedAt
             /\ call'.outcome # "none"
             /\ call'.asset = call.asset
             /\ (call'.startedAt # call.startedAt \/ call'.longEnd = "") )
           => /\ call'.outcome = "returned"
              /\ call'.ret = call.ret
              /\ ~call'.netUsed
              /\ cache' = cache ]_vars

\* C9 witness: the call has just returned after writing both entries.
C9_Witness ==
    /\ ReturnedFromMiss
    /\ call.wrote
    /\ now = call.endedAt
    /\ cache[CallKey5m].timestamp = now
    /\ cache[CallKey4h].data = call.ret[1].long

(***************************************************************************)
(* Claims about the request helpers, checked under SpecRetry.              *)
(***************************************************************************)
\* HTTP 429, HTTP >= 500 or a timeout.
Retryable(o) == o.kind = "timeout" \/ (o.kind = "http" /\ (o.code = 429 \/ o.code >= 500))

\* C10: a helper call (GET or POST) makes at most 10 HTTP attempts and
\* always ends; a further attempt follows only HTTP 429, HTTP >= 500 or a
\* timeout; when the 10th attempt fails its error is what the caller gets,
\* and no backoff sleep follows it.
C10_RetryBudget ==
    /\ [](/\ rq.made <= 10
          /\ rq.sleeps <= 9
          /\ rq.made >= 2 => Retryable(rq.last) \/ rq.phase \in {"returned", "raised"}
          /\ rq.phase = "sleep" => Retryable(rq.last) /\ rq.made < 10
          /\ rq.phase \in {"try", "wait"} => rq.sleeps = rq.made - (IF rq.phase = "wait" THEN 1 ELSE 0)
          /\ rq.phase = "raised" => rq.err = rq.last /\ rq.sleeps = rq.made - 1
          /\ (rq.made = 10 /\ rq.phase \notin {"wait", "returned"}) =>
                rq.phase = "raised" /\ rq.err = rq.last /\ rq.sleeps = 9)
    /\ (rq.phase \in {"try", "wait", "sleep"}) ~> (rq.phase \in {"returned", "raised"})

\* C10 witness: a helper call whose 10th attempt failed with a retryable
\* error has raised it.
C10_Witness ==
    /\ rq.phase = "raised"
    /\ rq.made = 10
    /\ rq.sleeps = 9
    /\ Retryable(rq.err)

\* An error the helpers do not retry: an HTTP status that is neither 429 nor
\* >= 500, or an exception that is neither an HTTP error nor a timeout.
NotRetried(o) == o.kind \in {"http", "error"} /\ ~Retryable(o)

\* C11: when an attempt, at any attempt index, ends with an error that is
\* not HTTP 429, HTTP >= 500 or a timeout (in particular a non-429 4xx), the
\* helper call raises that error at once: no sleep follows it, and no further
\* attempt is made by that call.
C11_NonRetryableSurfacesAtOnce ==
    /\ [](NotRetried(rq.last) =>
            /\ rq.phase = "raised"
            /\ rq.err = rq.last
            /\ rq.sleeps = rq.made - 1
            /\ rq.attempt = rq.made - 1)
    /\ [][NotRetried(rq.last) =>
            \/ rq' = rq
            \/ \E helper \in {"get", "post"} : rq' = StartRq(helper)]_vars

\* C11 witness: a 404 answered the fourth attempt of a call, after three
\* retried errors, and was raised with only those three sleeps made.
C11_Witness ==
    /\ rq.phase = "raised"
    /\ rq.err = HttpError(404)
    /\ rq.made = 4
    /\ rq.sleeps = 3

\* The last helper application was given a mapping that has the named key.
FnNamed == fn.data.t = "dict" /\ fn.key \in DOMAIN fn.data.v

\* What the mapping of the last helper application holds under the named key.
FnHeld == fn.data.v[fn.key]

\* `out` is `in` as the helpers normalize one element: a number rounded to
\* four decimals (a multiple of 1e-4 at most half of 1e-4 away), anything else as it is.
NormalizedFrom(out, in) ==
    IF in.t = "num"
    THEN /\ out.t = "num"
         /\ out.v % 10 = 0
         /\ out.v - in.v \in -5..5
    ELSE out = in

\* Series extraction returns a list: empty unless the named key holds a list,
\* and then of the same length and order, each element normalized.
SeriesContract ==
    fn.name = "_extract_series" =>
        /\ fn.out.t = "list"
        /\ IF FnNamed /\ FnHeld.t = "list"
           THEN /\ Len(fn.out.v) = Len(FnHeld.v)
                /\ \A i \in 1..Len(FnHeld.v) : NormalizedFrom(fn.out.v[i], FnHeld.v[i])
           ELSE fn.out.v = <<>>

\* C12 as stated: besides the series contract, scalar extraction returns
\* absent for every listed shape, a named key holding a non-list included.
C12_Original ==
    /\ SeriesContract
    /\ (fn.name = "_extract_value" /\ ~(FnNamed /\ FnHeld.t = "list")) => fn.out = JNull

\* C12 (amended): normalization is total and order-preserving. Series
\* extraction returns the empty sequence for an absent, empty or non-mapping
\* input, a mapping without the named key and a named key holding a non-list;
\* for a list it returns the same length and order, numbers rounded and other
\* elements unchanged. Scalar extraction returns absent unless the input is a
\* mapping with the named key, and then returns what the key holds, a number
\* rounded and anything else unchanged. Neither raises.
C12_NormalizationTotal ==
    /\ SeriesContract
    /\ fn.name = "_extract_value" =>
          /\ fn.out.t # "raise"
          /\ IF FnNamed THEN NormalizedFrom(fn.out, FnHeld) ELSE fn.out = JNull

\* C12 witness: a list of an over-precise number and a null came back with
\* the number rounded and the null in place.
C12_Witness ==
    /\ fn.name = "_extract_series"
    /\ FnNamed
    /\ FnHeld = JList(<<JNum(-5004), JNull>>)
    /\ fn.out = JList(<<JNum(-5000), JNull>>)

\* The positions in op.net of the calls to `api` made by the operation.
CallsOf(api) == {i \in DOMAIN op.net : op.net[i].api = api}

\* The positions in op.net of the order-placement requests.
PlacementCalls == CallsOf("create_order") \cup CallsOf("order_algo")

\* The posSide a placement request carries, "" when it carries none.
PosSideOf(r) ==
    IF r.api = "create_order"
    THEN IF "posSide" \in DOMAIN r.params.params THEN r.params.params.posSide ELSE ""
    ELSE IF "posSide" \in DOMAIN r.params THEN r.params.posSide ELSE ""

\* C13: over any sequence of place_market_order / place_take_profit /
\* place_stop_loss calls the account-config query is issued at most once in
\* the session; a call made when the mode is already memoized issues none,
\* and every placement request is built from the mode the first detection
\* memoized, whatever the exchange would answer to a new query.
C13_DetectsAtMostOnce ==
    /\ [](/\ hist.configQueries <= 1
          /\ okx.position_mode = hist.detected
          /\ \A i \in PlacementCalls :
                /\ op.net[i].mode = hist.detected
                /\ PosSideOf(op.net[i]) # "" <=> hist.detected = "long_short_mode")
    /\ [][okx.position_mode # "None" =>
            /\ hist'.configQueries = hist.configQueries
            /\ hist'.detected = hist.detected
            /\ CallsOf("account_config")' = CallsOf("account_config")
               \/ op'.net = <<>>]_vars

\* C13 witness: a later placement, in a session that detected long/short
\* mode once, sent its order without any account-config query of its own.
C13_Witness ==
    /\ hist.configQueries = 1
    /\ hist.detected = "long_short_mode"
    /\ Len(op.net) = 1
    /\ op.net[1].api = "order_algo"
    /\ PosSideOf(op.net[1]) # ""

\* C14: _position_mode is always one of None (unknown), net_mode,
\* long_short_mode and starts as None; it changes only from None, to
\* net_mode or long_short_mode, when the answer to the first account-config
\* query arrives; a failed query and a reply with a missing or unrecognized
\* posMode give net_mode; once it is not None it never changes again and the
\* query is not issued again.
C14_PositionModeStateMachine ==
    /\ okx.position_mode = "None"
    /\ [](/\ okx.position_mode \in {"None", "net_mode", "long_short_mode"}
          /\ hist.reply \in {"net_mode", "long_short_mode"} => okx.position_mode = hist.reply
          /\ hist.reply \in ConfigReplies \ {"net_mode", "long_short_mode"} =>
                okx.position_mode = "net_mode"
          /\ hist.configQueries = 1 /\ op.pc # "account_config" => okx.position_mode # "None")
    /\ [][/\ okx'.position_mode # okx.position_mode =>
               /\ okx.position_mode = "None"
               /\ okx'.position_mode \in {"net_mode", "long_short_mode"}
               /\ op.pc = "account_config"
               /\ hist.configQueries = 1
          /\ okx.position_mode # "None" => hist'.configQueries = hist.configQueries]_vars

\* C14 witness: the account-config query raised and the mode became net_mode.
C14_Witness ==
    /\ hist.reply = "exception"
    /\ okx.position_mode = "net_mode"
    /\ hist.configQueries = 1

\* C15 (as stated): a place_market_order call that reports the
\* size-too-small error has made no network call during the whole operation,
\* in every session state, a fresh session included.
C15_ZeroSizeNoNetwork ==
    (op.name = "place_market_order" /\ op.outcome = "error") =>
        /\ Contracts(op.amount, op.ct_val) = 0
        /\ op.net = <<>>

\* C16: every order-placement request (create_order of a market order,
\* private_post_trade_order_algo of a take-profit or stop-loss) is sent when
\* _position_mode is not None.
C16_ModeKnownBeforePlacement ==
    \A i \in PlacementCalls : op.net[i].mode \in {"net_mode", "long_short_mode"}

\* C16 witness: in a fresh session a stop-loss request went out third, after
\* load_markets and the account-config query, with the mode known.
C16_Witness ==
    /\ op.name = "place_stop_loss"
    /\ Len(op.net) = 3
    /\ op.net[2].api = "account_config"
    /\ op.net[2].mode = "None"
    /\ op.net[3].api = "order_algo"
    /\ op.net[3].mode # "None"

\* C17: a create_order request carries posSide exactly when the session's
\* position mode is long_short_mode, and then "long" for a buy and "short"
\* for a sell; in net_mode, the net_mode a failed detection gives included,
\* it carries none.
C17_MarketPosSideIffLongShort ==
    \A i \in CallsOf("create_order") :
        LET r == op.net[i]
        IN /\ r.params.side = op.side
           /\ "posSide" \in DOMAIN r.params.params <=> okx.position_mode = "long_short_mode"
           /\ okx.position_mode = "long_short_mode" =>
                 r.params.params.posSide = (IF op.side = "buy" THEN "long" ELSE "short")
           /\ okx.position_mode = "net_mode" => r.params.params = [tdMode |-> "cross"]

\* C17 witness: a market sell went out in long/short mode with posSide short.
C17_Witness ==
    /\ op.name = "place_market_order"
    /\ op.side = "sell"
    /\ okx.position_mode = "long_short_mode"
    /\ CallsOf("create_order") # {}
    /\ \A i \in CallsOf("create_order") : PosSideOf(op.net[i]) = "short"

\* C18: the conditional order of place_take_profit / place_stop_loss is on
\* the side opposite to the position (is_buy -> sell, otherwise buy) and
\* executes at market when triggered (order price -1); in long_short_mode its
\* posSide is the position's direction (is_buy -> long, otherwise short), in
\* net_mode it has no posSide.
C18_ProtectiveOrderShape ==
    \A i \in CallsOf("order_algo") :
        LET r == op.net[i].params
            ordPx == IF op.name = "place_take_profit" THEN "tpOrdPx" ELSE "slOrdPx"
            trigger == IF op.name = "place_take_profit" THEN "tpTriggerPx" ELSE "slTriggerPx"
        IN /\ op.name \in {"place_take_profit", "place_stop_loss"}
           /\ r.side = (IF op.is_buy THEN "sell" ELSE "buy")
           /\ r.ordType = "conditional"
           /\ {ordPx, trigger} \subseteq DOMAIN r
           /\ r[ordPx] = "-1"
           /\ "posSide" \in DOMAIN r <=> okx.position_mode = "long_short_mode"
           /\ okx.position_mode = "long_short_mode" =>
                 /\ r.posSide = (IF op.is_buy THEN "long" ELSE "short")
                 /\ r.posSide # (IF r.side = "sell" THEN "short" ELSE "long")

\* C18 witness: a stop-loss for a short position went out in long/short
\* mode as a buy with posSide short.
C18_Witness ==
    /\ op.name = "place_stop_loss"
    /\ ~op.is_buy
    /\ okx.position_mode = "long_short_mode"
    /\ CallsOf("order_algo") # {}
    /\ \A i \in CallsOf("order_algo") :
          op.net[i].params.side = "buy" /\ op.net[i].params.posSide = "short"

\* C19 (as stated): when place_take_profit or place_stop_loss computes 0
\* contracts no conditional-order request is sent, in particular none of
\* size 0, and the condition is reported.
C19_ZeroSizeProtectiveNotSent ==
    /\ \A i \in CallsOf("order_algo") : op.net[i].params.sz # "0"
    /\ (op.name \in {"place_take_profit", "place_stop_loss"} /\ op.outcome = "returned") =>
          op.sz # 0

\* The dual path of cancel_order: an algo cancel is sent only as the call
\* right after a regular cancel of the same id that failed, never after one
\* that succeeded; the error result comes only after both have failed; an
\* algo cancel that succeeds makes the operation return its answer.
CancelDualPath ==
    op.name = "cancel_order" =>
        /\ \A i \in CallsOf("cancel_algo") :
              /\ i > 1
              /\ op.net[i - 1].api = "cancel_order"
              /\ op.net[i - 1].params.id = op.net[i].params.algoId
              /\ "cancel_order" \in op.failed
        /\ (op.pc = "done" /\ CallsOf("cancel_order") # {} /\ "cancel_order" \notin op.failed) =>
              /\ CallsOf("cancel_algo") = {}
              /\ op.outcome = "returned"
        /\ op.outcome = "error" => {"cancel_order", "cancel_algo"} \subseteq op.failed
        /\ (op.pc = "done" /\ CallsOf("cancel_algo") # {} /\ "cancel_algo" \notin op.failed) =>
              op.outcome = "returned"
        /\ \A i \in CallsOf("cancel_order"), j \in CallsOf("cancel_order") : i = j

\* C20 as stated: besides the dual path, the regular cancel is always
\* attempted, and cancel_order fails only after both cancels have failed.
C20_Original ==
    /\ CancelDualPath
    /\ (op.name = "cancel_order" /\ op.pc = "done") =>
          /\ CallsOf("cancel_order") # {}
          /\ op.outcome # "returned" => {"cancel_order", "cancel_algo"} \subseteq op.failed

\* C20 (amended): once _ensure_markets has succeeded, cancel_order attempts
\* the regular cancel first; the algo cancel of the same id is attempted only
\* after the regular cancel has failed and never when it succeeded; the
\* error result is reported only after both have failed, and a successful
\* algo cancel makes the operation succeed. When load_markets fails in a
\* session whose markets are not loaded, cancel_order raises that error
\* without attempting either cancel.
C20_CancelDualPath ==
    /\ CancelDualPath
    /\ (op.name = "cancel_order" /\ op.pc = "done") =>
          IF "load_markets" \in op.failed
          THEN /\ op.outcome = "raised"
               /\ CallsOf("cancel_order") \cup CallsOf("cancel_algo") = {}
          ELSE /\ CallsOf("cancel_order") # {}
               /\ op.outcome \in {"returned", "error"}
               /\ op.outcome = "error" <=> {"cancel_order", "cancel_algo"} \subseteq op.failed

\* C20 witness: the regular cancel failed, the algo cancel of the same id
\* was sent after it and succeeded, and cancel_order returned its answer.
C20_Witness ==
    /\ op.name = "cancel_order"
    /\ op.outcome = "returned"
    /\ op.failed = {"cancel_order"}
    /\ op.ret = Response("cancel_algo")
    /\ Len(op.net) = 2
    /\ op.net[2].api = "cancel_algo"

\* C25: for every coin ticker C, _get_inst_id(C) is C followed by
\* "-USDT-SWAP" and _get_symbol(C) is C followed by "/USDT:USDT", and
\* _get_asset_from_symbol gives C back from either.
C25_SymbolRoundTrip ==
    (fn.name \in {"_get_inst_id", "_get_symbol"} /\ fn.data \in Tickers) =>
        /\ fn.name = "_get_inst_id" => fn.out.symbol = fn.data \o InstSuffix
        /\ fn.name = "_get_symbol" => fn.out.symbol = fn.data \o UnifiedSuffix
        /\ fn.out.asset = fn.data

\* C25 witness: the ticker ST went to ST-USDT-SWAP and came back as ST.
C25_Witness ==
    /\ fn.name = "_get_inst_id"
    /\ fn.data = <<"S", "T">>
    /\ fn.out.symbol = <<"S", "T", "-", "U", "S", "D", "T", "-", "S", "W", "A", "P">>
    /\ fn.out.asset = <<"S", "T">>

\* The identifiers the entries of a raw data list hold as ordId or algoId.
IdsIn(list) ==
    {d.v["ordId"] : d \in {x \in {list[i] : i \in DOMAIN list} : "ordId" \in DOMAIN x.v}} \cup
    {d.v["algoId"] : d \in {x \in {list[i] : i \in DOMAIN list} : "algoId" \in DOMAIN x.v}}

\* The identifiers of the response under the normalized top-level id.
TopIds(r) == IF "id" \in DOMAIN r THEN {r["id"]} ELSE {}

\* The identifiers of the response in the raw data list nested under info.
NestedIds(r) ==
    IF "info" \in DOMAIN r /\ r["info"].t = "dict"
    THEN IF "data" \in DOMAIN r["info"].v /\ r["info"].v["data"].t = "list"
         THEN IdsIn(r["info"].v["data"].v) ELSE {}
    ELSE {}

\* The identifiers of the response in a top-level raw data list.
DirectIds(r) ==
    IF "data" \in DOMAIN r /\ r["data"].t = "list" THEN IdsIn(r["data"].v) ELSE {}

\* The result of the last extract_oids call is duplicate-free and holds
\* exactly the identifiers `ids`.
OidsAre(ids) ==
    /\ \A i, j \in DOMAIN fn.out : fn.out[i] = fn.out[j] => i = j
    /\ {fn.out[i] : i \in DOMAIN fn.out} = ids

\* C24 as stated: the result holds, once each, the identifiers under the
\* top-level id, the nested raw data list and any top-level raw data list.
C24_Original ==
    fn.name = "extract_oids" =>
        OidsAre(TopIds(fn.data.v) \cup NestedIds(fn.data.v) \cup DirectIds(fn.data.v))

\* C24 (amended): extract_oids returns a duplicate-free collection holding
\* exactly the identifiers under the top-level id, under ordId and algoId in
\* the raw data list nested in info, and under ordId and algoId in the
\* top-level raw data list of a response whose code is "0"; a response with
\* both an ordId and an algoId yields both, an id in several shapes appears
\* once, and a response with none of these yields the empty collection.
C24_ExtractOids ==
    fn.name = "extract_oids" =>
        OidsAre(TopIds(fn.data.v) \cup NestedIds(fn.data.v) \cup
                (IF "code" \in DOMAIN fn.data.v /\ fn.data.v["code"] = JStr("0")
                 THEN DirectIds(fn.data.v) ELSE {}))

\* C24 witness: a response with id o1, and o1 and a1 in one nested entry,
\* gave o1 and a1, each once.
C24_Witness ==
    /\ fn.name = "extract_oids"
    /\ fn.data = JDict([id |-> JStr("o1"),
                        info |-> JDict([data |-> JList(<<JDict([ordId |-> JStr("o1"),
                                                                algoId |-> JStr("a1")])>>)])])
    /\ fn.out = <<JStr("o1"), JStr("a1")>>

\* C26 (as stated): get_current_price never raises; when anything fails
\* during the operation, a failure to load market metadata included, it
\* returns 0.
C26_PriceNeverRaises ==
    (op.name = "get_current_price" /\ op.pc = "done") =>
        /\ op.outcome = "returned"
        /\ op.failed # {} => op.ret.value = JNum(0)

\* C27 (as stated): get_open_interest and get_funding_rate never raise; when
\* anything fails during the operation, a failure to load market metadata
\* included, they return None.
C27_LookupsNeverRaise ==
    (op.name \in {"get_open_interest", "get_funding_rate"} /\ op.pc = "done") =>
        /\ op.outcome = "returned"
        /\ op.failed # {} => op.ret.value = JNull

\* The operations that write to the exchange.
WriteOps == Placements \cup {"cancel_order", "cancel_all_orders"}

\* C21 (as stated): when the last exchange request of a write operation
\* failed (it raised, or it was answered with an error code), the operation
\* has raised or returned an error-coded result, never a result that reads
\* as success.
C21_NoSilentWriteFailure ==
    (/\ op.name \in WriteOps
     /\ op.pc = "done"
     /\ op.net # <<>>
     /\ op.net[Len(op.net)].api \in op.failed \cup op.rejected) =>
        op.outcome \in {"raised", "error"}

\* C22 (as stated): when cancel_all_orders reports status ok, the regular
\* bulk cancel succeeded, the listing of the instrument's pending algo
\* orders succeeded with code "0", and every pending algo order is in an
\* algo-cancel request that succeeded.
C22_CancelAllOkMeansAllCancelled ==
    (op.name = "cancel_all_orders" /\ op.pc = "done" /\ op.ret = StatusOk) =>
        /\ CallsOf("cancel_all_orders") # {}
        /\ CallsOf("algo_pending") # {}
        /\ op.failed \cup op.rejected = {}
        /\ \A i \in DOMAIN op.exch.algo :
              \E c \in CallsOf("cancel_algo") :
                 \E k \in DOMAIN op.net[c].params :
                    op.net[c].params[k].algoId = op.exch.algo[i].algoId


\* C23: when get_open_orders has returned, its list holds exactly one entry
\* per pending regular order followed by one entry per pending algo order;
\* regular entries report no trigger price; algo entries carry the algo id
\* as order id and the take-profit or stop-loss trigger price the exchange
\* reports for them.
C23_OpenOrdersComplete ==
    (op.name = "get_open_orders" /\ op.pc = "done" /\ op.outcome = "returned") =>
        LET reg == op.exch.regular
            alg == op.exch.algo
            out == op.ret.orders
        IN /\ Len(out) = Len(reg) + Len(alg)
           /\ \A i \in DOMAIN reg : out[i].oid = reg[i].ordId /\ out[i].trigger_price = None
           /\ \A i \in DOMAIN alg :
                 /\ out[Len(reg) + i].oid = alg[i].algoId
                 /\ (StrGet(alg[i], "tpTriggerPx") # "" =>
                       out[Len(reg) + i].trigger_price = Some(Float(alg[i].tpTriggerPx)))
                 /\ (StrGet(alg[i], "tpTriggerPx") = "" /\ StrGet(alg[i], "slTriggerPx") # "" =>
                       out[Len(reg) + i].trigger_price = Some(Float(alg[i].slTriggerPx)))

\* The exchange positions of the running get_user_state that hold contracts.
HeldPositions ==
    SelectSeq(op.exch.positions, LAMBDA pos : pos.contracts # None /\ pos.contracts # Some(0))

Writers == {t \in Tasks : tasks[t].wrote # None}

Queriers == {t \in Tasks : tasks[t].queried}

\* C29: whatever the interleaving of concurrent placements on a session
\* whose position mode starts unknown, at most one of them assigns the
\* position mode, at most one issues the account-config query, and all
\* that assign it assign the same value.
C29_ModeWrittenOnce ==
    /\ Cardinality(Writers) <= 1
    /\ Cardinality(Queriers) <= 1
    /\ \A t, u \in Writers : tasks[t].wrote = tasks[u].wrote

\* C30: in one fetch_asset_indicators call, each HTTP request, a retry
\* included, is sent at least 15 s after the request before it.
C30_RequestsFifteenApart ==
    (pc # "idle" /\ call.gap # -1) => call.gap >= 15

\* C36: markets_loaded starts false and becomes true only when a
\* load_markets call answers; a load_markets call that raises ends the
\* operation as raised and leaves the flag false; an operation that finds
\* the flag false calls load_markets; the flag never goes back to false and
\* no operation calls load_markets while it is true.
C36_MarketsLoadedUntilSuccess ==
    /\ ~okx.markets_loaded
    /\ [][/\ okx'.markets_loaded # okx.markets_loaded =>
               /\ okx'.markets_loaded
               /\ op.pc = "load_markets"
               /\ "load_markets" \notin op'.failed
          /\ (op.pc = "load_markets" /\ "load_markets" \in op'.failed) =>
               /\ op'.pc = "done" /\ op'.outcome = "raised"
               /\ ~okx'.markets_loaded
          /\ (op.pc = "ensure_markets" /\ ~okx.markets_loaded) =>
               /\ op'.pc = "load_markets"
               /\ op'.net = Append(op.net, Request("load_markets", NoParams))
          /\ (okx.markets_loaded /\ op'.net # op.net /\ op'.net # <<>>) =>
               op'.net[Len(op'.net)].api # "load_markets"]_vars

\* C36 happens: with the markets loaded, an operation ran to its end,
\* called the exchange, and did not load the markets again.
C36_Witness ==
    /\ okx.markets_loaded
    /\ op.pc = "done" /\ op.outcome = "returned"
    /\ op.net # <<>>
    /\ CallsOf("load_markets") = {}

\* The order ids of a list of entries returned by get_open_orders.
OidsOf(orders) == [i \in DOMAIN orders |-> orders[i].oid]

\* C37: a get_open_orders call whose market load did not fail never raises.
\* When the regular listing raises, the algo listing is not called and the
\* empty list is returned.  When the regular listing succeeds and the algo
\* listing raises or is answered with another code than "0", the list
\* returned holds the regular entries only and is a plain list, as for an
\* account without algo orders.
C37_OpenOrdersPartialOnFailure ==
    (op.name = "get_open_orders" /\ op.pc = "done" /\ "load_markets" \notin op.failed) =>
        /\ op.outcome = "returned"
        /\ DOMAIN op.ret = {"code", "orders"} /\ op.ret.code = "orders"
        /\ "orders_pending" \in op.failed =>
              /\ op.ret.orders = <<>>
              /\ CallsOf("orders_algo_pending") = {}
        /\ ("orders_pending" \notin op.failed \cup op.rejected
              /\ "orders_algo_pending" \in op.failed \cup op.rejected) =>
              /\ OidsOf(op.ret.orders) = [i \in DOMAIN op.exch.regular |-> op.exch.regular[i].ordId]
              /\ \A i \in DOMAIN op.ret.orders : op.ret.orders[i].trigger_price = None

\* C37 happens: two regular orders were listed, the algo listing was
\* answered with an error code while an algo order is pending, and the two
\* regular entries are returned.
C37_Witness ==
    /\ op.name = "get_open_orders" /\ op.pc = "done"
    /\ op.rejected = {"orders_algo_pending"} /\ op.failed = {}
    /\ op.exch.algo # <<>>
    /\ OidsOf(op.ret.orders) = <<"r1", "r2">>

\* C38: a get_user_state call whose market load did not fail never raises.
\* When fetch_balance raises, the state returned has balance 0, equity 0
\* and no positions.  When fetch_balance answers and fetch_positions
\* raises, the state returned has the balance and equity of the answer and
\* no positions, as for an account without open positions.
C38_SnapshotPartialOnFailure ==
    (op.name = "get_user_state" /\ op.pc = "done" /\ "load_markets" \notin op.failed) =>
        /\ op.outcome = "returned"
        /\ DOMAIN op.ret = {"code", "balance", "total_value", "positions", "withdrawable",
                            "accountValue", "assetPositions"}
        /\ "fetch_balance" \in op.failed =>
              /\ op.ret.balance = 0 /\ op.ret.total_value = 0
              /\ op.ret.positions = <<>> /\ op.ret.assetPositions = <<>>
              /\ CallsOf("fetch_positions") = {}
        /\ "fetch_positions" \in op.failed =>
              LET b == op.exch.balance[1]
              IN /\ op.ret.balance = (IF b.USDT # None THEN b.USDT[1].free ELSE 0)
                 /\ op.ret.total_value =
                       (IF b.totalEq \notin {None, Some(0)} THEN b.totalEq[1]
                        ELSE IF b.USDT # None THEN b.USDT[1].total ELSE 0)
                 /\ op.ret.positions = <<>> /\ op.ret.assetPositions = <<>>

\* C38 happens: the balance was fetched, fetch_positions raised while the
\* account holds positions, and the state returned has the balance and no
\* position.
C38_Witness ==
    /\ op.name = "get_user_state" /\ op.pc = "done"
    /\ op.failed = {"fetch_positions"}
    /\ Len(HeldPositions) > 0
    /\ op.ret.balance = 100 /\ op.ret.total_value = 200
    /\ op.ret.positions = <<>>

\* The size carried by a placement request: the amount of create_order, the
\* sz string of private_post_trade_order_algo.
SizeSent(r) == IF r.api = "create_order" THEN ToString(r.params.amount) ELSE r.params.sz

\* C35: a placement that got past the market load has its size computed
\* whatever the market metadata holds: without a contract size the size is
\* floor(amount / 1.0), with a contract size that is not positive it is 1.
\* That size decides the outcome: a market order of size 0 ends as "Amount
\* too small" with nothing sent, any other is sent with that size; a
\* protective order is sent with that size; the metadata alone never makes
\* the placement raise.
C35_MissingMetadataNeverBlocks ==
    (/\ op.name \in Placements
     /\ op.pc \in {"create_order", "order_algo", "done"}
     /\ "load_markets" \notin op.failed) =>
        /\ okx.markets = "missing" => op.sz = op.amount \div 1000
        /\ okx.markets = "0" => op.sz = 1
        /\ (op.name = "place_market_order" /\ op.sz = 0) =>
              /\ PlacementCalls = {}
              /\ op.outcome = "error" /\ op.ret = ErrorResult("Amount too small")
        /\ (op.name # "place_market_order" \/ op.sz # 0) =>
              /\ Cardinality(PlacementCalls) = 1
              /\ \A i \in PlacementCalls : SizeSent(op.net[i]) = ToString(op.sz)
        /\ op.outcome = "raised" => op.failed \cap {"create_order", "order_algo"} # {}

\* C35 happens: the market's contract size is 0 and a market order for
\* 0.001 coin was sent as 1 contract.
C35_Witness ==
    /\ op.name = "place_market_order" /\ op.pc = "done" /\ op.outcome = "returned"
    /\ okx.markets = "0"
    /\ op.amount = 1
    /\ \E i \in CallsOf("create_order") : op.net[i].params.amount = 1

\* C33: once a placement has looked up the contract value of its market
\* symbol, the symbol is in _ct_val_cache with the value that was used.
C33_ContractValueCached ==
    (/\ op.name \in Placements
     /\ op.pc \in {"create_order", "order_algo", "done"}
     /\ "load_markets" \notin op.failed) =>
        /\ GetSymbol(op.asset) \in DOMAIN okx.ct_val_cache
        /\ okx.ct_val_cache[GetSymbol(op.asset)] = op.ct_val

\* Every entry the cache holds was there when the call started: the call
\* has written none.
NoEntryFromCall ==
    \A k \in DOMAIN cache : k \in DOMAIN call.startCache /\ cache[k] = call.startCache[k]

\* C31: a call in which every indicator of both horizons came back empty
\* writes nothing to the cache, so a later call for the asset is not
\* answered with the all-empty bundles.
C31_AllEmptyNotCached ==
    (MissCompleted /\ enable_cache /\ AllAbsent(res5m) /\ AllAbsent(res4h)) =>
        /\ ~call.wrote
        /\ NoEntryFromCall

\* C32 (as stated): a call aborted at any point before it returns has
\* written no cache entry; the cache never holds a 5m entry written by the
\* aborted call without its 4h entry.
C32_Original ==
    call.outcome = "aborted" => NoEntryFromCall

\* C32: a call aborted while it waits (for the answer to a bulk request,
\* in a retry backoff or in the 30 s delay), or anywhere else before its
\* first cache write, has written no cache entry.  Only an abort between
\* the two cache writes leaves the 5m entry without the 4h entry.
C32_AbortBeforeWritesLeavesNothing ==
    /\ (call.outcome = "aborted" /\ call.abortedIn \in {"short", "delay", "long", "write5m"}) =>
          /\ ~call.wrote
          /\ NoEntryFromCall
    /\ (call.outcome = "aborted" /\ ~NoEntryFromCall) =>
          /\ call.abortedIn = "write4h"
          /\ call.wrote
          /\ CallKey5m \in DOMAIN cache

\* C32 happens: the call was aborted during its 4h request, after a 5m
\* request that returned indicators, and the cache is still empty.
C32_Witness ==
    /\ call.outcome = "aborted"
    /\ call.abortedIn = "long"
    /\ call.shortEnd = "returned"
    /\ enable_cache
    /\ cache = EmptyCache

\* C34: at most one TAAPICache is ever constructed; every get_cache call
\* returns it and every client with caching enabled holds it; its ttl is the
\* argument of the call that constructed it, and no later get_cache call or
\* client construction, whatever ttl it names, changes the instance or its
\* ttl.
C34_CacheCreatedOnce ==
    /\ [](/\ proc.made <= 1
          /\ proc.instance = None <=> proc.made = 0
          /\ proc.got \in {None, proc.instance}
          /\ \A i \in DOMAIN proc.clients :
                proc.clients[i].cache =
                    IF proc.clients[i].enable_cache THEN proc.instance ELSE None)
    /\ [][/\ proc.instance # None => proc'.instance = proc.instance
          /\ (proc.instance = None /\ proc'.instance # None) =>
                proc'.instance[1].ttl = proc'.arg
          /\ proc'.arg # proc.arg => proc'.got = proc'.instance /\ proc'.got # None]_vars

\* C34 happens: two clients were constructed with different cache_ttl, and
\* both hold the one cache, whose ttl is the first client's.
C34_Witness ==
    /\ Len(proc.clients) >= 2
    /\ proc.clients[1].enable_cache /\ proc.clients[2].enable_cache
    /\ proc.clients[1].cache_ttl = 1 /\ proc.clients[2].cache_ttl = DefaultTtl
    /\ proc.made = 1
    /\ proc.instance[1].ttl = 1
    /\ proc.clients[2].cache = proc.instance

\* C39: when no thread is between its two cache writes, the 5m and the 4h
\* entry of an asset were written by the same fetch_asset_indicators call,
\* however the writes of concurrent calls interleaved.
C39_EntriesFromSameCall ==
    (\A f \in Flows : flows.run[f].pc # "write4h") =>
        \A a \in Assets :
            (Key(a, "5m") \in DOMAIN cache /\ Key(a, "4h") \in DOMAIN cache) =>
                flows.by[Key(a, "5m")] = flows.by[Key(a, "4h")]

\* C39 (amended): as long as no call for an asset has gone on to its
\* requests while another thread was inside a call for that asset, the 5m
\* and the 4h entry the cache holds for the asset were written by the same
\* call whenever no thread is between its two cache writes.
C39_SerialEntriesFromSameCall ==
    (~flows.overlap /\ \A f \in Flows : flows.run[f].pc # "write4h") =>
        \A a \in Assets :
            (Key(a, "5m") \in DOMAIN cache /\ Key(a, "4h") \in DOMAIN cache) =>
                flows.by[Key(a, "5m")] = flows.by[Key(a, "4h")]

\* A second call, run after the first had returned and its entries had
\* expired, has written both entries.
C39_Witness ==
    /\ ~flows.overlap
    /\ \A f \in Flows : flows.run[f].pc = "idle"
    /\ Key("BTC", "5m") \in DOMAIN cache /\ Key("BTC", "4h") \in DOMAIN cache
    /\ Key("BTC", "5m") \in DOMAIN flows.by /\ flows.by[Key("BTC", "5m")] >= 2
    /\ flows.by[Key("BTC", "4h")] = flows.by[Key("BTC", "5m")]
====
